---------------------------- MODULE Spec2Model ----------------------------
(***************************************************************************)
(* WhiteBox: the kernel's main loop (KernelMain / DispatchMessages, in its *)
(* three source variants) and the launcher (WinMain / BootmgrStartup on    *)
(* Windows, main on Mac).                                                  *)
(*                                                                         *)
(* Spec     : one KernelMain invocation, from window creation to return.   *)
(* SpecLive : Spec with a fair kernel thread.                              *)
(* SpecBoot : one launcher process, from process start to exit.            *)
(* SpecNewHandler, SpecComPolicy, SpecThreadName, SpecSdlWindow : the      *)
(* scoped classes ScopedNewHandler, ScopedComStrongUnmarshallingPolicy,    *)
(* ScopedThreadName and SdlWindow, each over every order of its            *)
(* operations.                                                             *)
(***************************************************************************)
EXTENDS Integers, Sequences, FiniteSets, TLC

VARIABLES
  \* ---- kernel side -------------------------------------------------------
  variant,                    \* which DispatchMessages/KernelMain is built
  kpc,                        \* position inside KernelMain/DispatchMessages
  exit_code,                  \* DispatchMessages local (rc in whitebox-kernel)
  is_done,                    \* DispatchMessages local
  maybe_dispatch_rc,          \* result of the last msg_dispatcher.Dispatch
  clock,                      \* HighResolutionClock: last reading handed out
  loop_iteration_start_time,  \* DispatchMessages local
  delta_time,                 \* DispatchMessages local (last value computed)
  mouse_input_queue,          \* InputQueue<MouseInput> of KernelMain
  keyboard_input_queue,       \* InputQueue<KeyboardInput> of KernelMain
  window_alive,               \* the MainWindow object exists
  alive,                      \* locals of KernelMain whose lifetime is running
  log,                        \* warning lines written by DispatchMessages
  kernel_reports,             \* FatalDialog payloads handed out by KernelMain
  dm_rv,                      \* value returned by DispatchMessages
  kernel_rv,                  \* value returned by KernelMain
  \* ---- kernel side, history (observations, never read by the program) -----
  iterations,                 \* Dispatch / poll bursts started so far
  sim_calls,                  \* SimulateWorldStep calls so far
  quit_seen,                  \* a quit message reached the quit handler
  quit_code,                  \* the exit code PostQuitMessage carried
  quit_tail,                  \* kinds of message behind the first quit in its burst
  bursts_before_quit,         \* bursts completed before the quit's burst
  sim_after_quit,             \* SimulateWorldStep calls made after the quit
  stop_cause,                 \* why the while loop was left
  pushed_mouse,               \* events pushed so far, in Push order
  pushed_keyboard,
  drained_mouse,              \* concatenation of the DrainAll results
  drained_keyboard,
  previous_reading,           \* the clock reading before the latest one
  delta_sum,                  \* sum of the delta_time values SimulateWorldStep got
  first_timestamp,            \* the reading taken before the loop started
  delta_computed_in,          \* iteration in which delta_time was computed
  sim_args,                   \* arguments of the last SimulateWorldStep call
  trace,                      \* steps the current iteration has performed
  ksteps,                     \* what KernelMain has done so far, in order
  dead_access,                \* a Push or DrainAll met a queue that is not alive
  \* ---- launcher side -----------------------------------------------------
  platform,                   \* "win" (hl2_exe_main_win.cc) or "mac"
  debug_build,                \* _DEBUG is defined
  user_switch,                \* the user typed the insecure switch
  module_present,             \* the boot manager file can be opened
  module_signed,              \* the boot manager file is signed
  module_exports,             \* symbol names the boot manager exports
  env_fail,                   \* which platform call fails in this run
  entry_rv,                   \* what the boot manager's entry returns
  bpc,                        \* position inside WinMain/BootmgrStartup/main
  command_line,               \* switches on the command line WinMain parses
  insecure_flag,              \* FLAGS_insecure_allow_unsigned_module_target
  boot_manager_flags,         \* flags handed to FromLibraryOnPath
  boot_manager_path,          \* path handed to FromLibraryOnPath
  handle,                     \* ScopedSharedLibrary: none / open / released
  entry,                      \* resolved entry point: none / symbol name
  steps,                      \* loader steps executed, in order
  reports,                    \* fatal reports (FatalDialog / sdl::Fatal)
  blog,                       \* warning lines written by BootmgrStartup
  rv,                         \* value the entry point returned to its caller
  entry_args,                 \* what was handed to the entry point
  scoped,                     \* WinMain's scoped resources now held, oldest first
  wsteps,                     \* what WinMain did with them, in order
  exit_status,                \* process exit status: none / integer
  \* ---- ScopedNewHandler --------------------------------------------------
  new_handler,                \* the installed new-failure handler
  nh_api,                     \* std::set_new_handler or ::_set_new_handler
  nh_scopes,                  \* previous_new_handler_ of the live objects, outermost first
  nh_hist,                    \* per live object: handler given, handler installed before
  nh_last,                    \* the same, for the object destroyed last (<<>> if none)
  \* ---- ScopedComStrongUnmarshallingPolicy --------------------------------
  com_policy,                 \* the process's COMGLB_UNMARSHALING_POLICY value
  cp_pc,                      \* the object: none / alive / destroyed / aborted
  cp_debug,                   \* G3DCHECK is compiled in
  cp_fail,                    \* which COM calls fail in this run
  error_code_,                \* member: TRUE when an error is recorded
  old_value_,                 \* member old_global_unmarshalling_policy_option_value_
  cp_queried,                 \* history: what Query handed out (<<>> if nothing)
  cp_initial,                 \* history: the policy before construction
  cp_writes,                  \* history: the Set calls that took effect, in order
  \* ---- ScopedThreadName --------------------------------------------------
  thread_name,                \* the name the system holds for the thread
  tn_pc,                      \* the object: none / alive / destroyed / aborted
  tn_fail,                    \* which thread-name calls fail in this run
  tn_build,                   \* what the build makes of the early write to old_thread_name_
  tn_new_name,                \* constructor argument new_thread_name
  tn_error_code_,             \* member error_code_: TRUE when an error is recorded
  old_thread_name_,           \* member
  tn_before,                  \* history: the thread's name before construction
  tn_writes,                  \* history: SetThreadName calls that took effect
  \* ---- SdlWindow ---------------------------------------------------------
  sdl_objects,                \* per object: its life and its member window_
  sdl_created,                \* native windows SDL_CreateWindow handed out so far
  sdl_destroyed,              \* per native window: SDL_DestroyWindow calls on it
  sdl_debug,                  \* G3DCHECK is compiled in
  sdl_aborted,                \* a G3DCHECK ended the process
  sdl_last                    \* history: the operation executed last (<<>> if none)

timeHist   == <<delta_sum, first_timestamp>>
loopHist   == <<previous_reading, delta_computed_in, sim_args, trace,
                timeHist>>
kernelVars == <<variant, kpc, exit_code, is_done, maybe_dispatch_rc, clock,
                loop_iteration_start_time, delta_time, mouse_input_queue,
                keyboard_input_queue, window_alive, alive, log,
                kernel_reports, dm_rv, kernel_rv>>
coreHist   == <<iterations, sim_calls, quit_seen, quit_code, quit_tail,
                bursts_before_quit, sim_after_quit, stop_cause, pushed_mouse,
                pushed_keyboard, drained_mouse, drained_keyboard, loopHist>>
histVars   == <<coreHist, ksteps, dead_access>>
bootVars   == <<platform, debug_build, user_switch, module_present,
                module_signed, module_exports, env_fail, entry_rv, bpc,
                command_line, insecure_flag, boot_manager_flags,
                boot_manager_path, handle, entry, steps, reports, blog, rv,
                entry_args, scoped, wsteps, exit_status>>
winmainVars == <<scoped, wsteps>>
newHandlerVars == <<new_handler, nh_api, nh_scopes, nh_hist, nh_last>>
comPolicyVars == <<com_policy, cp_pc, cp_debug, cp_fail, error_code_,
                   old_value_, cp_queried, cp_initial, cp_writes>>
threadNameVars == <<thread_name, tn_pc, tn_fail, tn_build, tn_new_name,
                    tn_error_code_, old_thread_name_, tn_before, tn_writes>>
sdlWindowVars == <<sdl_objects, sdl_created, sdl_destroyed, sdl_debug,
                   sdl_aborted, sdl_last>>
classVars  == <<newHandlerVars, comPolicyVars, threadNameVars, sdlWindowVars>>
vars       == <<kernelVars, histVars, bootVars, classVars>>

None == "none"
\* An integer that may be absent: <<>> or <<n>>.
NoInt == <<>>
Some(n) == <<n>>

-----------------------------------------------------------------------------
(* Bounds of the model.                                                    *)

\* Dispatch calls (message bursts) one run of the loop may start.
MaxIterations == 3
\* Messages one burst may hold.
MaxBurstLen == 2
\* Events the window may push into each InputQueue during one run.
MaxPush == 2
\* Largest advance of the clock between two readings.
MaxTick == 1
\* Advances of the clock between two readings: none, or the largest.
Ticks == {0, MaxTick}

-----------------------------------------------------------------------------
(* Platform messages.  A WPARAM is 64 bits wide; it is kept as four 16-bit *)
(* words, most significant first, so that the narrowing to int is visible. *)

Word == 256 * 256

\* PostQuitMessage(nExitCode): the int is widened (sign-extended) to WPARAM.
PostQuitWParam(n) ==
  << IF n < 0 THEN Word - 1 ELSE 0,
     IF n < 0 THEN Word - 1 ELSE 0,
     (n \div Word) % Word,
     n % Word >>

\* static_cast<int>(msg.wParam): the low 32 bits, read as a signed int.
StaticCastInt(w) ==
  IF w[3] >= Word \div 2 THEN (w[3] - Word) * Word + w[4]
                         ELSE w[3] * Word + w[4]

\* Exit codes a quit message may carry.
QuitCodes == {-1, 0, 42}

WM_QUIT      == "WM_QUIT"
WM_MOUSEMOVE == "WM_MOUSEMOVE"
WM_KEYDOWN   == "WM_KEYDOWN"

QuitMsg(n) == [message |-> WM_QUIT, wParam |-> PostQuitWParam(n)]
OtherMsgs  == { [message |-> m, wParam |-> PostQuitWParam(0)] :
                  m \in {WM_MOUSEMOVE, WM_KEYDOWN} }
Messages   == OtherMsgs \cup { QuitMsg(n) : n \in QuitCodes }

SeqsUpTo(S, n) == UNION { [1..k -> S] : k \in 0..n }
Bursts == SeqsUpTo(Messages, MaxBurstLen)

\* Results Dispatch may return: no value, or an error code (0 included).
NoRc == [has_value |-> FALSE, value |-> 0]
DispatchCodes == {0, 5}
DispatchResults == {NoRc} \cup { [has_value |-> TRUE, value |-> c] :
                                   c \in DispatchCodes }


-----------------------------------------------------------------------------
(* The kernel: KernelMain and DispatchMessages.                            *)

KERNEL_WIN == "kernel/main_win.cc"
WBK_WIN    == "whitebox-kernel/main.cc WB_OS_WIN"
WBK_POSIX  == "whitebox-kernel/main.cc POSIX"
Variants   == {KERNEL_WIN, WBK_WIN, WBK_POSIX}
IsWin      == variant \in {KERNEL_WIN, WBK_WIN}

\* The quit handler DispatchMessages hands to Dispatch; st holds the two
\* locals it captures by reference.
handle_quit_message_NoCapture(msg, st) ==
  IF msg.message = WM_QUIT
    THEN [st EXCEPT !.is_done = TRUE]
    ELSE st
handle_quit_message(msg, st) ==
  IF msg.message = WM_QUIT
    THEN [exit_code |-> StaticCastInt(msg.wParam), is_done |-> TRUE]
    ELSE st

\* PeekMessageDispatcher::Dispatch(HasNoPreDispatchMessage, handler): pumps
\* the pending burst in order, hands every message to the handler, and
\* leaves whatever follows a quit alone.  The pre-dispatch predicate only
\* decides whether a message is translated and dispatched to the window.
RECURSIVE Pump(_, _)
Pump(burst, st) ==
  IF burst = <<>> \/ st.is_done
    THEN st
    ELSE Pump(Tail(burst), handle_quit_message(Head(burst), st))

HasQuit(burst) == \E i \in 1..Len(burst) : burst[i].message = WM_QUIT
FirstQuit(burst) ==
  burst[CHOOSE i \in 1..Len(burst) :
          /\ burst[i].message = WM_QUIT
          /\ \A j \in 1..(i - 1) : burst[j].message # WM_QUIT]
\* The int PostQuitMessage was called with to post msg.
CarriedCode(msg) == CHOOSE n \in QuitCodes : QuitMsg(n) = msg
\* What is queued behind the first quit message of a burst, by kind; a repeat
\* of the first quit, carrying the same code, is not told apart from it.
ANOTHER_QUIT == "quit carrying another code"
NOT_A_QUIT   == "not a quit"
AfterFirstQuit(burst) ==
  LET i == CHOOSE k \in 1..Len(burst) :
             /\ burst[k].message = WM_QUIT
             /\ \A j \in 1..(k - 1) : burst[j].message # WM_QUIT
      behind == (i + 1)..Len(burst)
  IN { ANOTHER_QUIT : k \in { k \in behind :
                                /\ burst[k].message = WM_QUIT
                                /\ CarriedCode(burst[k]) # CarriedCode(burst[i]) } }
       \cup { NOT_A_QUIT : k \in { k \in behind : burst[k].message # WM_QUIT } }

\* The two warning lines of DispatchMessages.
RECEIVED_ERROR == "message dispatch thread received error"
EXITED_WITH_CODE == "message dispatch thread exited with non success code"

\* The body of the while loop after the Dispatch call, statement by
\* statement: the position that follows each position.
StepAfter_SimulateFirst(pc) ==
  CASE pc = "check_rc" -> "simulate"
    [] pc = "simulate" -> "clock"
    [] pc = "clock"    -> "loop_test"
StepAfter(pc) ==
  CASE pc = "check_rc" -> "clock"
    [] pc = "clock"    -> "simulate"
    [] pc = "simulate" -> "loop_test"

\* What the loop does with the result of Dispatch (main_win.cc): the
\* position it goes to and the exit code it holds afterwards.
AfterDispatch_IgnoreResult(rc, code) == [pc |-> "clock", exit_code |-> code]
AfterDispatch_KeepsCapturedCode(rc, code) ==
  IF rc.has_value
    THEN [pc |-> "dm_log", exit_code |-> code]
    ELSE [pc |-> "clock", exit_code |-> code]
AfterDispatch(rc, code) ==
  IF rc.has_value
    THEN [pc |-> "dm_log", exit_code |-> rc.value]
    ELSE [pc |-> StepAfter("check_rc"), exit_code |-> code]

\* HighResolutionClock::now() is read in milliseconds; between two readings
\* the clock advances by d steps of 100 ms.
Milliseconds(d) == 100 * d

\* delta_time = now_time - loop_iteration_start_time, and the value
\* loop_iteration_start_time holds after the iteration's assignment.
DeltaTime_Absolute(now_time, start_time) == now_time
DeltaTime(now_time, start_time) == now_time - start_time
NextIterationStart_Keep(now_time, start_time) == start_time
NextIterationStart(now_time, start_time) == now_time

\* The arguments of the SimulateWorldStep call: the delta and the two queues
\* (by name), with the iterations the delta was computed in and passed in.
NoArgs == [delta_time |-> 0, mouse |-> None, keyboard |-> None,
           computed_in |-> 0, called_in |-> 0]
SimulateWorldStepArguments ==
  [delta_time |-> delta_time,
   mouse |-> "mouse_input_queue", keyboard |-> "keyboard_input_queue",
   computed_in |-> delta_computed_in, called_in |-> iterations]
QueueNamed(name) ==
  CASE name = "mouse_input_queue"    -> mouse_input_queue
    [] name = "keyboard_input_queue" -> keyboard_input_queue

\* DispatchMessages takes both queues by reference and hands the same
\* objects on to SimulateWorldStep.
QueuesByReference_Copy == FALSE
QueuesByReference == TRUE

\* InputQueue<T>::Push and InputQueue<T>::DrainAll.
Push(queue, event) == Append(queue, event)
DrainAll_Peek(queue) == [events |-> queue, queue |-> queue]
DrainAll(queue) == [events |-> queue, queue |-> <<>>]
\* What the two DrainAll calls of SimulateWorldStep leave in the queue `name`.
LeftIn(name, args, m, k) == IF args.mouse = name THEN m.queue ELSE k.queue

KernelInit ==
  /\ variant \in Variants
  /\ kpc = "locals"
  /\ exit_code = 0
  /\ is_done = FALSE
  /\ maybe_dispatch_rc = NoRc
  /\ clock = 0
  /\ loop_iteration_start_time = 0
  /\ delta_time = 0
  /\ mouse_input_queue = <<>>
  /\ keyboard_input_queue = <<>>
  /\ window_alive = FALSE
  /\ alive = {}
  /\ log = <<>>
  /\ kernel_reports = <<>>
  /\ dm_rv = NoInt
  /\ kernel_rv = NoInt
  /\ iterations = 0
  /\ sim_calls = 0
  /\ quit_seen = FALSE
  /\ quit_code = NoInt
  /\ quit_tail = {}
  /\ bursts_before_quit = 0
  /\ sim_after_quit = 0
  /\ stop_cause = None
  /\ pushed_mouse = <<>>
  /\ pushed_keyboard = <<>>
  /\ drained_mouse = <<>>
  /\ drained_keyboard = <<>>
  /\ previous_reading = 0
  /\ delta_sum = 0
  /\ first_timestamp = 0
  /\ delta_computed_in = 0
  /\ sim_args = NoArgs
  /\ trace = <<>>
  /\ ksteps = <<>>
  /\ dead_access = FALSE

\* One entry of ksteps: what was done, and to which local (None for a call).
Step(op, obj) == [op |-> op, obj |-> obj]

\* KernelMain: its locals with a lifetime that matters, in declaration
\* order.  They are constructed in this order and, when KernelMain returns,
\* destroyed in the reverse order.
Queues == {"mouse_input_queue", "keyboard_input_queue"}
Windows == {"window_result", "sdl_window"}
Declarations_WindowFirst ==
  CASE variant = KERNEL_WIN ->
         <<"window_result", "mouse_input_queue", "keyboard_input_queue">>
    [] variant = WBK_WIN    -> <<"window_result">>
    [] variant = WBK_POSIX  ->
         <<"sdl_initializer", "sdl_image_initializer", "sdl_window">>
Declarations ==
  CASE variant = KERNEL_WIN ->
         <<"mouse_input_queue", "keyboard_input_queue", "window_result">>
    [] variant = WBK_WIN    -> <<"window_result">>
    [] variant = WBK_POSIX  ->
         <<"sdl_initializer", "sdl_image_initializer", "sdl_window">>

\* Locals whose construction has been attempted, the one that is next, and
\* where KernelMain goes once a local is constructed.
Attempted == Cardinality({ i \in 1..Len(ksteps) :
                            ksteps[i].op \in {"construct", "fail"} })
NextLocal == IF Attempted < Len(Declarations)
               THEN Declarations[Attempted + 1] ELSE None
AfterLocal == IF Attempted + 1 < Len(Declarations) THEN "locals"
              ELSE IF IsWin THEN "show" ELSE "dm_enter"

\* KernelMain: the branch on the result of the window creation (and, on
\* POSIX, of each SDL initializer).
AfterNew_Continue(ok, next) == next
AfterNew(ok, next) == IF ok THEN next ELSE "fatal"

\* KernelMain: the payload handed to FatalDialog when obj was not created.
FatalPayload(obj) ==
  CASE obj = "window_result" ->
         [title  |-> "{0} - Error",
          error  |-> "window_result.error()",
          hint   |-> "Please, check app is installed correctly and you have enough permissions to run it.",
          detail |-> "Unable to create main '{0}' window."]
    [] obj = "sdl_initializer" ->
         [title  |-> "{0} - Error",
          error  |-> "{}",
          hint   |-> "Please, check your SDL library installed and working.",
          detail |-> "SDL build/runtime v.{0}/v.{1}, revision '{2}' initialization failed."]
    [] obj = "sdl_image_initializer" ->
         [title  |-> "{0} - Error",
          error  |-> "{}",
          hint   |-> "Please, check your SDL library installed and working.",
          detail |-> "SDL image parser initialization failed for image types {0}."]
    [] obj = "sdl_window" ->
         [title  |-> "{0} - Error",
          error  |-> "{}",
          hint   |-> "Please, check you installed '{0}' libraries/drivers.",
          detail |-> "SDL window create failed with '{0}' context."]

\* KernelMain: input::InputQueue<MouseInput> mouse_input_queue;
\* input::InputQueue<KeyboardInput> keyboard_input_queue.
ConstructQueue ==
  /\ kpc = "locals"
  /\ NextLocal \in Queues
  /\ alive' = alive \cup {NextLocal}
  /\ ksteps' = Append(ksteps, Step("construct", NextLocal))
  /\ kpc' = AfterLocal
  /\ UNCHANGED <<variant, exit_code, is_done, maybe_dispatch_rc, clock,
                 loop_iteration_start_time, delta_time, mouse_input_queue,
                 keyboard_input_queue, window_alive, log, kernel_reports,
                 dm_rv, kernel_rv>>
  /\ UNCHANGED <<coreHist, dead_access, bootVars, classVars>>

\* KernelMain (POSIX): SdlInitializer::New, SdlImageInitializer::New.
SdlInit ==
  /\ kpc = "locals"
  /\ NextLocal \in {"sdl_initializer", "sdl_image_initializer"}
  /\ \E ok \in BOOLEAN :
       /\ alive' = IF ok THEN alive \cup {NextLocal} ELSE alive
       /\ ksteps' = Append(ksteps,
                           Step(IF ok THEN "construct" ELSE "fail", NextLocal))
       /\ kpc' = AfterNew(ok, AfterLocal)
  /\ UNCHANGED <<variant, exit_code, is_done, maybe_dispatch_rc, clock,
                 loop_iteration_start_time, delta_time, mouse_input_queue,
                 keyboard_input_queue, window_alive, log, kernel_reports,
                 dm_rv, kernel_rv>>
  /\ UNCHANGED <<coreHist, dead_access, bootVars, classVars>>

\* KernelMain: BaseWindow::New<MainWindow> (SdlWindow::New on POSIX), and
\* the branch on its result.  On POSIX the icon, the minimum sizes and the
\* cursor follow; none of them can stop KernelMain.
NewWindow ==
  /\ kpc = "locals"
  /\ NextLocal \in Windows
  /\ \E ok \in BOOLEAN :
       /\ window_alive' = ok
       /\ alive' = IF ok THEN alive \cup {NextLocal} ELSE alive
       /\ ksteps' = Append(ksteps,
                           Step(IF ok THEN "construct" ELSE "fail", NextLocal))
       /\ kpc' = AfterNew(ok, AfterLocal)
  /\ UNCHANGED <<variant, exit_code, is_done, maybe_dispatch_rc, clock,
                 loop_iteration_start_time, delta_time, mouse_input_queue,
                 keyboard_input_queue, log, kernel_reports, dm_rv, kernel_rv>>
  /\ UNCHANGED <<coreHist, dead_access, bootVars, classVars>>

\* KernelMain: window->Show(kernel_args.show_window_flags).
Show ==
  /\ kpc = "show"
  /\ ksteps' = Append(ksteps, Step("Show", None))
  /\ kpc' = "update"
  /\ UNCHANGED <<variant, exit_code, is_done, maybe_dispatch_rc, clock,
                 loop_iteration_start_time, delta_time, mouse_input_queue,
                 keyboard_input_queue, window_alive, alive, log,
                 kernel_reports, dm_rv, kernel_rv>>
  /\ UNCHANGED <<coreHist, dead_access, bootVars, classVars>>

\* KernelMain: window->Update().
Update ==
  /\ kpc = "update"
  /\ ksteps' = Append(ksteps, Step("Update", None))
  /\ kpc' = "dm_enter"
  /\ UNCHANGED <<variant, exit_code, is_done, maybe_dispatch_rc, clock,
                 loop_iteration_start_time, delta_time, mouse_input_queue,
                 keyboard_input_queue, window_alive, alive, log,
                 kernel_reports, dm_rv, kernel_rv>>
  /\ UNCHANGED <<coreHist, dead_access, bootVars, classVars>>

\* KernelMain: a local could not be created; FatalDialog gets the payload
\* and ends the process.
KernelFatal ==
  /\ kpc = "fatal"
  /\ kernel_reports' =
       Append(kernel_reports, FatalPayload(ksteps[Len(ksteps)].obj))
  /\ ksteps' = Append(ksteps, Step("FatalDialog", None))
  /\ kpc' = "terminated"
  /\ UNCHANGED <<variant, exit_code, is_done, maybe_dispatch_rc, clock,
                 loop_iteration_start_time, delta_time, mouse_input_queue,
                 keyboard_input_queue, window_alive, alive, log, dm_rv,
                 kernel_rv>>
  /\ UNCHANGED <<coreHist, dead_access, bootVars, classVars>>

\* DispatchMessages: the locals, the dispatcher and the first clock reading.
DispatchMessagesEnter ==
  /\ kpc = "dm_enter"
  /\ exit_code' = 0
  /\ is_done' = FALSE
  /\ IF variant = KERNEL_WIN
       THEN \E d \in Ticks :
              /\ clock' = clock + Milliseconds(d)
              /\ loop_iteration_start_time' = clock + Milliseconds(d)
              /\ first_timestamp' = clock + Milliseconds(d)
       ELSE UNCHANGED <<clock, loop_iteration_start_time, first_timestamp>>
  /\ ksteps' = Append(ksteps, Step("DispatchMessages", None))
  /\ kpc' = "loop_test"
  /\ UNCHANGED <<variant, maybe_dispatch_rc, delta_time, mouse_input_queue,
                 keyboard_input_queue, window_alive, alive, log, kernel_reports,
                 dm_rv, kernel_rv>>
  /\ UNCHANGED <<iterations, sim_calls, quit_seen, quit_code, quit_tail,
                 bursts_before_quit, sim_after_quit, stop_cause, pushed_mouse,
                 pushed_keyboard, drained_mouse, drained_keyboard,
                 previous_reading, delta_computed_in, sim_args, trace,
                 delta_sum>>
  /\ UNCHANGED <<dead_access, bootVars, classVars>>

\* DispatchMessages: the condition of while (!is_done).
LoopContinues_Inverted(done) == done
LoopContinues_Always(done) == TRUE
LoopContinues(done) == ~done

\* DispatchMessages: while (!is_done).
LoopTest ==
  /\ kpc = "loop_test"
  /\ IF ~LoopContinues(is_done)
       THEN /\ kpc' = IF IsWin THEN "dm_log" ELSE "dm_return"
            /\ stop_cause' = "quit"
            /\ UNCHANGED trace
       ELSE /\ kpc' = "dispatch"
            /\ trace' = <<>>
            /\ UNCHANGED stop_cause
  /\ UNCHANGED <<variant, exit_code, is_done, maybe_dispatch_rc, clock,
                 loop_iteration_start_time, delta_time, mouse_input_queue,
                 keyboard_input_queue, window_alive, alive, log, kernel_reports,
                 dm_rv, kernel_rv>>
  /\ UNCHANGED <<iterations, sim_calls, quit_seen, quit_code, quit_tail,
                 bursts_before_quit, sim_after_quit, pushed_mouse,
                 pushed_keyboard, drained_mouse, drained_keyboard,
                 previous_reading, delta_computed_in, sim_args,
                 timeHist>>
  /\ UNCHANGED <<ksteps, dead_access>>
  /\ UNCHANGED <<bootVars, classVars>>

\* What one burst adds to the history.
Observe(burst) ==
  /\ iterations' = iterations + 1
  /\ IF ~quit_seen /\ HasQuit(burst)
       THEN /\ quit_seen' = TRUE
            /\ quit_code' = Some(CarriedCode(FirstQuit(burst)))
            /\ quit_tail' = AfterFirstQuit(burst)
            /\ bursts_before_quit' = iterations
       ELSE UNCHANGED <<quit_seen, quit_code, quit_tail, bursts_before_quit>>

\* DispatchMessages (kernel/main_win.cc): msg_dispatcher.Dispatch(...).
Dispatch ==
  /\ kpc = "dispatch"
  /\ variant = KERNEL_WIN
  /\ iterations < MaxIterations
  /\ \E burst \in Bursts, rc \in DispatchResults :
       LET st == Pump(burst, [exit_code |-> exit_code, is_done |-> is_done])
       IN /\ exit_code' = st.exit_code
          /\ is_done' = st.is_done
          /\ maybe_dispatch_rc' = rc
          /\ Observe(burst)
  /\ trace' = Append(trace, "pump")
  /\ kpc' = "check_rc"
  /\ UNCHANGED <<variant, clock, loop_iteration_start_time, delta_time,
                 mouse_input_queue, keyboard_input_queue, window_alive, alive, log,
                 kernel_reports, dm_rv, kernel_rv>>
  /\ UNCHANGED <<sim_calls, sim_after_quit, stop_cause, pushed_mouse,
                 pushed_keyboard, drained_mouse, drained_keyboard,
                 previous_reading, delta_computed_in, sim_args,
                 timeHist>>
  /\ UNCHANGED <<ksteps, dead_access>>
  /\ UNCHANGED <<bootVars, classVars>>

\* DispatchMessages (kernel/main_win.cc): if (maybe_dispatch_rc.has_value()).
CheckDispatchResult ==
  /\ kpc = "check_rc"
  /\ LET after == AfterDispatch(maybe_dispatch_rc, exit_code)
     IN /\ kpc' = after.pc
        /\ exit_code' = after.exit_code
        /\ stop_cause' = IF after.pc = "dm_log" THEN "dispatch_error"
                                               ELSE stop_cause
  /\ log' = IF maybe_dispatch_rc.has_value /\ maybe_dispatch_rc.value # 0
              THEN Append(log, RECEIVED_ERROR)
              ELSE log
  /\ trace' = Append(trace, "check")
  /\ UNCHANGED <<variant, is_done, maybe_dispatch_rc, clock,
                 loop_iteration_start_time, delta_time, mouse_input_queue,
                 keyboard_input_queue, window_alive, alive, kernel_reports, dm_rv,
                 kernel_rv>>
  /\ UNCHANGED <<iterations, sim_calls, quit_seen, quit_code, quit_tail,
                 bursts_before_quit, sim_after_quit, pushed_mouse,
                 pushed_keyboard, drained_mouse, drained_keyboard,
                 previous_reading, delta_computed_in, sim_args,
                 timeHist>>
  /\ UNCHANGED <<ksteps, dead_access>>
  /\ UNCHANGED <<bootVars, classVars>>

\* DispatchMessages (kernel/main_win.cc): now_time, delta_time and the new
\* loop_iteration_start_time.
ReadClock ==
  /\ kpc = "clock"
  /\ \E d \in Ticks :
       LET now_time == clock + Milliseconds(d)
       IN /\ clock' = now_time
          /\ delta_time' = DeltaTime(now_time, loop_iteration_start_time)
          /\ loop_iteration_start_time' =
               NextIterationStart(now_time, loop_iteration_start_time)
  /\ previous_reading' = clock
  /\ UNCHANGED timeHist
  /\ delta_computed_in' = iterations
  /\ trace' = Append(trace, "clock")
  /\ kpc' = StepAfter("clock")
  /\ UNCHANGED <<variant, exit_code, is_done, maybe_dispatch_rc,
                 mouse_input_queue, keyboard_input_queue, window_alive, alive, log,
                 kernel_reports, dm_rv, kernel_rv>>
  /\ UNCHANGED <<iterations, sim_calls, quit_seen, quit_code, quit_tail,
                 bursts_before_quit, sim_after_quit, stop_cause, pushed_mouse,
                 pushed_keyboard, drained_mouse, drained_keyboard, sim_args>>
  /\ UNCHANGED <<ksteps, dead_access>>
  /\ UNCHANGED <<bootVars, classVars>>

\* DispatchMessages (kernel/main_win.cc): SimulateWorldStep(delta_time,
\* mouse_input_queue, keyboard_input_queue) drains both queues.
SimulateWorldStep ==
  /\ kpc = "simulate"
  /\ LET args == SimulateWorldStepArguments
         m == DrainAll(QueueNamed(args.mouse))
         k == DrainAll(QueueNamed(args.keyboard))
         passed == {args.mouse, args.keyboard}
     IN /\ drained_mouse' = drained_mouse \o m.events
        /\ drained_keyboard' = drained_keyboard \o k.events
        /\ mouse_input_queue' =
             IF QueuesByReference /\ "mouse_input_queue" \in passed
               THEN LeftIn("mouse_input_queue", args, m, k)
               ELSE mouse_input_queue
        /\ keyboard_input_queue' =
             IF QueuesByReference /\ "keyboard_input_queue" \in passed
               THEN LeftIn("keyboard_input_queue", args, m, k)
               ELSE keyboard_input_queue
        /\ sim_args' = args
        /\ delta_sum' = delta_sum + args.delta_time
        /\ dead_access' = (dead_access \/ ~(passed \subseteq alive))
  /\ sim_calls' = sim_calls + 1
  /\ sim_after_quit' = IF quit_seen THEN sim_after_quit + 1 ELSE sim_after_quit
  /\ trace' = Append(trace, "simulate")
  /\ kpc' = StepAfter("simulate")
  /\ UNCHANGED <<variant, exit_code, is_done, maybe_dispatch_rc, clock,
                 loop_iteration_start_time, delta_time, window_alive, alive, log,
                 kernel_reports, dm_rv, kernel_rv>>
  /\ UNCHANGED <<iterations, quit_seen, quit_code, quit_tail,
                 bursts_before_quit, stop_cause, pushed_mouse, pushed_keyboard,
                 previous_reading, delta_computed_in, first_timestamp>>
  /\ UNCHANGED ksteps
  /\ UNCHANGED <<bootVars, classVars>>

\* DispatchMessages (whitebox-kernel/main.cc, Windows): the loop body is the
\* Dispatch call alone; its result is not looked at.
DispatchOnly ==
  /\ kpc = "dispatch"
  /\ variant = WBK_WIN
  /\ iterations < MaxIterations
  /\ \E burst \in Bursts :
       LET st == Pump(burst, [exit_code |-> exit_code, is_done |-> is_done])
       IN /\ exit_code' = st.exit_code
          /\ is_done' = st.is_done
          /\ Observe(burst)
  /\ trace' = Append(trace, "pump")
  /\ kpc' = "loop_test"
  /\ UNCHANGED <<variant, maybe_dispatch_rc, clock, loop_iteration_start_time,
                 delta_time, mouse_input_queue, keyboard_input_queue,
                 window_alive, alive, log, kernel_reports, dm_rv, kernel_rv>>
  /\ UNCHANGED <<sim_calls, sim_after_quit, stop_cause, pushed_mouse,
                 pushed_keyboard, drained_mouse, drained_keyboard,
                 previous_reading, delta_computed_in, sim_args,
                 timeHist>>
  /\ UNCHANGED <<ksteps, dead_access>>
  /\ UNCHANGED <<bootVars, classVars>>

\* SDL events: SDL_QUIT carries no exit code.
SDL_QUIT  == "SDL_QUIT"
SDL_OTHER == "SDL_MOUSEMOTION"
SdlBursts == SeqsUpTo({SDL_QUIT, SDL_OTHER}, MaxBurstLen)

\* DispatchMessages (POSIX): switch (event.type); SDL_QUIT marks the loop
\* done, every other event is skipped.
SwitchEventType_Reset(type, done) == type = SDL_QUIT
SwitchEventType(type, done) == IF type = SDL_QUIT THEN TRUE ELSE done

\* DispatchMessages (POSIX): while (SDL_PollEvent(&event) == 1) switch ...;
\* every pending event is polled, in order.
RECURSIVE PollAll(_, _)
PollAll(burst, done) ==
  IF burst = <<>>
    THEN done
    ELSE PollAll(Tail(burst), SwitchEventType(Head(burst), done))

\* What is polled after the first SDL_QUIT of a burst, by kind.
AfterFirstSdlQuit(burst) ==
  LET i == CHOOSE k \in 1..Len(burst) :
             /\ burst[k] = SDL_QUIT
             /\ \A j \in 1..(k - 1) : burst[j] # SDL_QUIT
  IN { NOT_A_QUIT : k \in { k \in (i + 1)..Len(burst) : burst[k] # SDL_QUIT } }

\* DispatchMessages (POSIX): one run of the inner poll loop.
PollEvents ==
  /\ kpc = "dispatch"
  /\ variant = WBK_POSIX
  /\ iterations < MaxIterations
  /\ \E burst \in SdlBursts :
       LET quit == \E i \in 1..Len(burst) : burst[i] = SDL_QUIT
       IN /\ is_done' = PollAll(burst, is_done)
          /\ iterations' = iterations + 1
          /\ IF ~quit_seen /\ quit
               THEN /\ quit_seen' = TRUE
                    /\ quit_tail' = AfterFirstSdlQuit(burst)
                    /\ bursts_before_quit' = iterations
               ELSE UNCHANGED <<quit_seen, quit_tail, bursts_before_quit>>
  /\ trace' = Append(trace, "pump")
  /\ kpc' = "sleep"
  /\ UNCHANGED <<variant, exit_code, maybe_dispatch_rc, clock,
                 loop_iteration_start_time, delta_time, mouse_input_queue,
                 keyboard_input_queue, window_alive, alive, log, kernel_reports,
                 dm_rv, kernel_rv>>
  /\ UNCHANGED <<sim_calls, quit_code, sim_after_quit, stop_cause,
                 pushed_mouse, pushed_keyboard, drained_mouse,
                 drained_keyboard, previous_reading, delta_computed_in,
                 sim_args, timeHist>>
  /\ UNCHANGED <<ksteps, dead_access>>
  /\ UNCHANGED <<bootVars, classVars>>

\* DispatchMessages (POSIX): std::this_thread::sleep_for(5ms).
Sleep ==
  /\ kpc = "sleep"
  /\ kpc' = "loop_test"
  /\ UNCHANGED <<variant, exit_code, is_done, maybe_dispatch_rc, clock,
                 loop_iteration_start_time, delta_time, mouse_input_queue,
                 keyboard_input_queue, window_alive, alive, log, kernel_reports,
                 dm_rv, kernel_rv>>
  /\ UNCHANGED <<histVars, bootVars, classVars>>

\* DispatchMessages (Windows): the condition of G3LOG_IF(WARNING, ...) after
\* the loop.
WarnsOnExit_Always(code) == TRUE
WarnsOnExit(code) == code # 0

\* DispatchMessages (Windows): G3LOG_IF(WARNING, exit_code != 0).
LogExit ==
  /\ kpc = "dm_log"
  /\ log' = IF WarnsOnExit(exit_code) THEN Append(log, EXITED_WITH_CODE)
                                      ELSE log
  /\ kpc' = "dm_return"
  /\ UNCHANGED <<variant, exit_code, is_done, maybe_dispatch_rc, clock,
                 loop_iteration_start_time, delta_time, mouse_input_queue,
                 keyboard_input_queue, window_alive, alive, kernel_reports, dm_rv,
                 kernel_rv>>
  /\ UNCHANGED <<histVars, bootVars, classVars>>

\* DispatchMessages: return exit_code (return rc; return 0 on POSIX).
DispatchMessagesReturn ==
  /\ kpc = "dm_return"
  /\ dm_rv' = Some(IF IsWin THEN exit_code ELSE 0)
  /\ kpc' = "kernel_return"
  /\ UNCHANGED <<variant, exit_code, is_done, maybe_dispatch_rc, clock,
                 loop_iteration_start_time, delta_time, mouse_input_queue,
                 keyboard_input_queue, window_alive, alive, log, kernel_reports,
                 kernel_rv>>
  /\ UNCHANGED <<histVars, bootVars, classVars>>

\* KernelMain: return DispatchMessages(...): the value is in hand, the
\* locals are still to be destroyed.
KernelMainReturn ==
  /\ kpc = "kernel_return"
  /\ kernel_rv' = dm_rv
  /\ kpc' = IF alive = {} THEN "returned" ELSE "unwind"
  /\ UNCHANGED <<variant, exit_code, is_done, maybe_dispatch_rc, clock,
                 loop_iteration_start_time, delta_time, mouse_input_queue,
                 keyboard_input_queue, window_alive, alive, log,
                 kernel_reports, dm_rv>>
  /\ UNCHANGED <<histVars, bootVars, classVars>>

\* The local that is destroyed next: the last declared one still alive.
LastAlive ==
  Declarations[CHOOSE i \in 1..Len(Declarations) :
                 /\ Declarations[i] \in alive
                 /\ \A j \in (i + 1)..Len(Declarations) :
                      Declarations[j] \notin alive]

\* KernelMain: the closing brace; one local's destructor runs.
DestroyLocal ==
  /\ kpc = "unwind"
  /\ alive # {}
  /\ alive' = alive \ {LastAlive}
  /\ window_alive' = IF LastAlive \in Windows THEN FALSE ELSE window_alive
  /\ ksteps' = Append(ksteps, Step("destroy", LastAlive))
  /\ kpc' = IF alive' = {} THEN "returned" ELSE "unwind"
  /\ UNCHANGED <<variant, exit_code, is_done, maybe_dispatch_rc, clock,
                 loop_iteration_start_time, delta_time, mouse_input_queue,
                 keyboard_input_queue, log, kernel_reports, dm_rv, kernel_rv>>
  /\ UNCHANGED <<coreHist, dead_access, bootVars, classVars>>

\* The window's input callback (MainWindow holds references to KernelMain's
\* two queues): one raw mouse event arrives.
PushMouse ==
  /\ window_alive
  /\ variant = KERNEL_WIN
  /\ Len(pushed_mouse) < MaxPush
  /\ LET event == Len(pushed_mouse) + 1
     IN /\ mouse_input_queue' = Push(mouse_input_queue, event)
        /\ pushed_mouse' = Append(pushed_mouse, event)
  /\ dead_access' = (dead_access \/ "mouse_input_queue" \notin alive)
  /\ UNCHANGED <<variant, kpc, exit_code, is_done, maybe_dispatch_rc, clock,
                 loop_iteration_start_time, delta_time, keyboard_input_queue,
                 window_alive, alive, log, kernel_reports, dm_rv, kernel_rv>>
  /\ UNCHANGED <<iterations, sim_calls, quit_seen, quit_code, quit_tail,
                 bursts_before_quit, sim_after_quit, stop_cause,
                 pushed_keyboard, drained_mouse, drained_keyboard, loopHist>>
  /\ UNCHANGED ksteps
  /\ UNCHANGED <<bootVars, classVars>>

\* The window's input callback: one raw keyboard event arrives.
PushKeyboard ==
  /\ window_alive
  /\ variant = KERNEL_WIN
  /\ Len(pushed_keyboard) < MaxPush
  /\ LET event == Len(pushed_keyboard) + 1
     IN /\ keyboard_input_queue' = Push(keyboard_input_queue, event)
        /\ pushed_keyboard' = Append(pushed_keyboard, event)
  /\ dead_access' = (dead_access \/ "keyboard_input_queue" \notin alive)
  /\ UNCHANGED <<variant, kpc, exit_code, is_done, maybe_dispatch_rc, clock,
                 loop_iteration_start_time, delta_time, mouse_input_queue,
                 window_alive, alive, log, kernel_reports, dm_rv, kernel_rv>>
  /\ UNCHANGED <<iterations, sim_calls, quit_seen, quit_code, quit_tail,
                 bursts_before_quit, sim_after_quit, stop_cause,
                 pushed_mouse, drained_mouse, drained_keyboard, loopHist>>
  /\ UNCHANGED ksteps
  /\ UNCHANGED <<bootVars, classVars>>

\* The steps of the thread that runs KernelMain.
KernelThread ==
  \/ ConstructQueue \/ SdlInit \/ NewWindow \/ Show \/ Update \/ KernelFatal
  \/ DispatchMessagesEnter \/ LoopTest
  \/ Dispatch \/ CheckDispatchResult \/ ReadClock \/ SimulateWorldStep
  \/ DispatchOnly \/ PollEvents \/ Sleep
  \/ LogExit \/ DispatchMessagesReturn \/ KernelMainReturn \/ DestroyLocal

KernelNext == KernelThread \/ PushMouse \/ PushKeyboard

\* The launcher is not running while the kernel is looked at.
\* No scoped helper object is looked at while KernelMain or the launcher is.
NewHandlerIdle ==
  /\ new_handler = None /\ nh_api = None /\ nh_scopes = <<>>
  /\ nh_hist = <<>> /\ nh_last = <<>>
ComPolicyIdle ==
  /\ com_policy = None /\ cp_pc = "idle" /\ cp_debug = FALSE /\ cp_fail = {}
  /\ error_code_ = FALSE /\ old_value_ = None /\ cp_queried = <<>>
  /\ cp_initial = None /\ cp_writes = <<>>
ThreadNameIdle ==
  /\ thread_name = None /\ tn_pc = "idle" /\ tn_fail = {} /\ tn_build = None
  /\ tn_new_name = None /\ tn_error_code_ = FALSE /\ old_thread_name_ = None
  /\ tn_before = None /\ tn_writes = <<>>
SdlWindowIdle ==
  /\ sdl_objects = <<>> /\ sdl_created = 0 /\ sdl_destroyed = <<>>
  /\ sdl_debug = FALSE /\ sdl_aborted = FALSE /\ sdl_last = <<>>
ClassesIdle ==
  NewHandlerIdle /\ ComPolicyIdle /\ ThreadNameIdle /\ SdlWindowIdle

BootIdle ==
  /\ platform = None /\ debug_build = FALSE /\ user_switch = FALSE
  /\ module_present = FALSE /\ module_signed = FALSE /\ module_exports = {}
  /\ env_fail = {} /\ entry_rv = 0 /\ bpc = "idle"
  /\ command_line = {} /\ insecure_flag = FALSE /\ boot_manager_flags = {}
  /\ boot_manager_path = None /\ handle = None /\ entry = None
  /\ steps = <<>> /\ reports = <<>> /\ blog = <<>> /\ rv = NoInt
  /\ entry_args = {} /\ exit_status = NoInt
  /\ scoped = <<>> /\ wsteps = <<>>

Init == KernelInit /\ BootIdle /\ ClassesIdle
Next == KernelNext
Spec == Init /\ [][Next]_vars

\* Each step of the thread that runs KernelMain returns (Dispatch,
\* SDL_PollEvent, sleep_for and SimulateWorldStep included), so the thread
\* keeps going while it has a step to take; the window's input callbacks
\* are not owed to anyone.
SpecLive == Init /\ [][Next]_vars /\ WF_vars(KernelThread)

-----------------------------------------------------------------------------
(* The launcher: WinMain and BootmgrStartup (hl2_exe_main_win.cc), main    *)
(* (Mac).                                                                  *)

WIN == "win"
MAC == "mac"

INSECURE_SWITCH == "--insecure_allow_unsigned_module_target"
LOAD_WITH_ALTERED_SEARCH_PATH      == "LOAD_WITH_ALTERED_SEARCH_PATH"
LOAD_LIBRARY_REQUIRE_SIGNED_TARGET == "LOAD_LIBRARY_REQUIRE_SIGNED_TARGET"

\* Platform calls of the launcher that may fail in a run.
WinCalls == {"Args::FromCommandLine", "SetDefaultDllDirectories",
             "GetApplicationDirectory"}
\* WinMain's process-wide scoped resources, in declaration order: the first
\* two are built by a constructor, the others by a New that may fail.
WinMainScoped == <<"ScopedG3LogInitializer", "ScopedProcessLocale",
                   "ScopedThreadErrorMode", "ScopedThreadComInitializer",
                   "ScopedComFatalExceptionHandler",
                   "ScopedComStrongUnmarshallingPolicy">>
Constructed == {"ScopedG3LogInitializer", "ScopedProcessLocale"}
ScopedNews == {"ScopedThreadErrorMode", "ScopedThreadComInitializer",
               "ScopedComFatalExceptionHandler",
               "ScopedComStrongUnmarshallingPolicy"}
MacCalls == {"_NSGetExecutablePath(length)", "_NSGetExecutablePath(path)",
             "dirname"}
\* Names a boot manager build may export its entry point under.
ExportNames == {"BootmgrMain", "BootManagerMain"}
\* The name under which the boot manager's header declares its exported
\* entry point (extern "C", so the exported symbol is the name itself).
BootManagerMain == "BootManagerMain"
\* Values the boot manager's entry point may return.
EntryReturns == {-1, 0, 7}

\* WinMain: the command line that is parsed; a _DEBUG build appends the
\* insecure switch to what the user typed.
WinMainCommandLine(user, debug) ==
  user \cup (IF debug THEN {INSECURE_SWITCH} ELSE {})

\* absl::ParseCommandLine + ABSL_FLAG(bool, ..., false, ...): the flag is
\* false unless the parsed command line holds the switch.
ParseInsecureFlag(cmd) == INSECURE_SWITCH \in cmd

\* BootmgrStartup: boot_manager_flags.
BootManagerFlags_NeverSigned(insecure) == {LOAD_WITH_ALTERED_SEARCH_PATH}
BootManagerFlags(insecure) ==
  {LOAD_WITH_ALTERED_SEARCH_PATH} \cup
  (IF ~insecure THEN {LOAD_LIBRARY_REQUIRE_SIGNED_TARGET} ELSE {})

\* main (Mac): the dlopen flags.
MacLoadFlags == {"RTLD_LAZY", "RTLD_LOCAL", "RTLD_FIRST"}

\* The symbol the launcher resolves: kBootManagerMainName (Windows),
\* kBootManagerMainFunctionName (Mac).
kBootManagerMainName == "BootmgrMain"
kBootManagerMainFunctionName == "BootmgrMain"
EntrySymbol == IF platform = WIN THEN kBootManagerMainName
                                 ELSE kBootManagerMainFunctionName

\* ScopedSharedLibrary::FromLibraryOnPath: the file must open, and be
\* signed when the flags require a signed target.
LoadSucceeds(flags) ==
  /\ module_present
  /\ (LOAD_LIBRARY_REQUIRE_SIGNED_TARGET \in flags => module_signed)

\* ScopedSharedLibrary::GetAddressAs: exact-name lookup in an open module.
ResolveSucceeds(name) == handle = "open" /\ name \in module_exports

\* wb::ui::FatalDialog / wb::sdl::Fatal: hands the payload to the UI and
\* ends the process.
FatalDialog(payload) == [reports |-> Append(reports, payload),
                         pc |-> "terminated"]

\* Where the launcher goes after each fallible step.
AfterHardening_Fatal(ok) == IF ok THEN "get_app_dir" ELSE "fatal"
AfterHardening(ok) == "get_app_dir"

AfterAppDir_Continue(ok) == "build_load_args"
AfterAppDir(ok) == IF ok THEN "build_load_args" ELSE "fatal"

AfterLoad_Continue(ok) == "resolve"
AfterLoad_NoReport(ok) == IF ok THEN "resolve" ELSE "bootmgr_return"
AfterLoad(ok) == IF ok THEN "resolve" ELSE "fatal"

AfterResolve_Continue(ok) == "invoke"
AfterResolve(ok) == IF ok THEN "invoke" ELSE "fatal"

\* The local that owns the loaded module (boot_manager_library on Windows,
\* boot_manager_module on Mac), and what becomes of it when its scope is
\* left by a return: a ScopedSharedLibrary closes the module it holds.
ModuleOwner == IF platform = WIN THEN "boot_manager_library"
                                 ELSE "boot_manager_module"
LibraryAtScopeExit(h) == IF h = "open" THEN "released" ELSE h

\* What the call of the entry point does to the module its caller holds:
\* the call expression names neither the owner nor the module, and the
\* owner's scope encloses the call.
LibraryDuringCall_Closed(h) == "released"
LibraryDuringCall(h) == h

\* What the launcher hands to the entry point.
EntryArguments ==
  IF platform = WIN
    THEN {"instance", "args.values()", "args.count()",
          "WB_PRODUCT_FILE_DESCRIPTION_STRING", "show_window_flags",
          "WB_HALF_LIFE_2_IDI_MAIN_ICON", "WB_HALF_LIFE_2_IDI_SMALL_ICON",
          "positional_flags", "insecure_allow_unsigned_module_target", "intl"}
    ELSE {"argc", "argv"}

\* The value each layer hands on.
BootmgrStartupResult(r) == r
WinMainResult_Zero(r) == 0
WinMainResult(r) == r
MacExitArgument(r) == r

\* One fallible step: the step is recorded, then either the launcher goes
\* on to next or FatalDialog is called with payload.
Fallible(step, next, payload) ==
  /\ steps' = Append(steps, step)
  /\ IF next = "fatal"
       THEN /\ reports' = FatalDialog(payload).reports
            /\ bpc' = FatalDialog(payload).pc
       ELSE /\ reports' = reports
            /\ bpc' = next

\* WinMain: how many of its scoped resources have been attempted, and the
\* stage that follows the attempt of the one numbered n.
ScopedAttempted ==
  Cardinality({ i \in 1..Len(wsteps) :
                  wsteps[i].op \in {"acquire", "New failed"} })
AfterScoped(n) ==
  IF n < Len(WinMainScoped) /\ WinMainScoped[n + 1] \in Constructed
    THEN "scoped_ctor"
  ELSE IF WinMainScoped[n] \in Constructed THEN "parse_flags"
  ELSE IF n < Len(WinMainScoped) THEN "scoped_new"
  ELSE "set_dll_dirs"
\* WinMain returns: its locals are destroyed, the one declared last first.
DestroyedNext_OldestFirst(held) == 1
DestroyedNext(held) == Len(held)
Without(held, i) ==
  [ j \in 1..(Len(held) - 1) |-> IF j < i THEN held[j] ELSE held[j + 1] ]

\* BootmgrStartup: the warning written when SetDefaultDllDirectories fails.
SEARCH_ORDER_WARNING == "Can't enable secure DLL search order"

BootInit ==
  /\ platform \in {WIN, MAC}
  /\ debug_build \in (IF platform = WIN THEN BOOLEAN ELSE {FALSE})
  /\ user_switch \in (IF platform = WIN THEN BOOLEAN ELSE {FALSE})
  /\ module_present \in BOOLEAN
  /\ module_signed \in BOOLEAN
  /\ module_exports \in SUBSET ExportNames
  /\ env_fail \in SUBSET (IF platform = WIN THEN WinCalls \cup ScopedNews
                                               ELSE MacCalls)
  /\ entry_rv \in EntryReturns
  /\ bpc = IF platform = WIN THEN "winmain" ELSE "ns_length"
  /\ command_line = {}
  /\ insecure_flag = FALSE
  /\ boot_manager_flags = {}
  /\ boot_manager_path = None
  /\ handle = None
  /\ entry = None
  /\ steps = <<>>
  /\ reports = <<>>
  /\ blog = <<>>
  /\ rv = NoInt
  /\ entry_args = {}
  /\ scoped = <<>>
  /\ wsteps = <<>>
  /\ exit_status = NoInt

bootEnv == <<platform, debug_build, user_switch, module_present,
             module_signed, module_exports, env_fail, entry_rv>>

\* WinMain: GetCommandLineA/W, plus the switch in a _DEBUG build.
WinMainStart ==
  /\ bpc = "winmain"
  /\ command_line' =
       WinMainCommandLine(IF user_switch THEN {INSECURE_SWITCH} ELSE {},
                          debug_build)
  /\ bpc' = "scoped_ctor"
  /\ UNCHANGED <<bootEnv, insecure_flag, boot_manager_flags,
                 boot_manager_path, handle, entry, steps, reports, blog, rv,
                 exit_status>>
  /\ UNCHANGED entry_args
  /\ UNCHANGED <<kernelVars, histVars, classVars>>
  /\ UNCHANGED winmainVars

\* WinMain: scoped_g3log_initializer, then scoped_process_locale.
ConstructScoped ==
  /\ bpc = "scoped_ctor"
  /\ LET n == ScopedAttempted + 1
         obj == WinMainScoped[n]
     IN /\ scoped' = Append(scoped, obj)
        /\ wsteps' = Append(wsteps, Step("acquire", obj))
        /\ bpc' = AfterScoped(n)
  /\ UNCHANGED <<bootEnv, command_line, insecure_flag, boot_manager_flags,
                 boot_manager_path, handle, entry, steps, reports, blog, rv,
                 entry_args, exit_status>>
  /\ UNCHANGED <<kernelVars, histVars, classVars>>

\* WinMain: ScopedThreadErrorMode::New, ScopedThreadComInitializer::New,
\* ScopedComFatalExceptionHandler::New, ScopedComStrongUnmarshallingPolicy::
\* New; a failure is logged as a warning and WinMain goes on without it.
NewScoped ==
  /\ bpc = "scoped_new"
  /\ LET n == ScopedAttempted + 1
         obj == WinMainScoped[n]
         ok == obj \notin env_fail
     IN /\ scoped' = IF ok THEN Append(scoped, obj) ELSE scoped
        /\ wsteps' = Append(wsteps,
                            Step(IF ok THEN "acquire" ELSE "New failed", obj))
        /\ bpc' = AfterScoped(n)
  /\ UNCHANGED <<bootEnv, command_line, insecure_flag, boot_manager_flags,
                 boot_manager_path, handle, entry, steps, reports, blog, rv,
                 entry_args, exit_status>>
  /\ UNCHANGED <<kernelVars, histVars, classVars>>

\* WinMain: Args::FromCommandLine (fatal on failure), then
\* absl::ParseCommandLine sets the flags.
ParseCommandLine ==
  /\ bpc = "parse_flags"
  /\ LET ok == "Args::FromCommandLine" \notin env_fail
     IN /\ Fallible("Args::FromCommandLine",
                    IF ok THEN "scoped_new" ELSE "fatal",
                    [kind |-> "IOError",
                     detail |-> "Can't parse command line flags",
                     symbol |-> None, path |-> None])
        /\ insecure_flag' = IF ok THEN ParseInsecureFlag(command_line)
                                  ELSE insecure_flag
  /\ UNCHANGED <<bootEnv, command_line, boot_manager_flags,
                 boot_manager_path, handle, entry, blog, rv, exit_status>>
  /\ UNCHANGED entry_args
  /\ UNCHANGED <<kernelVars, histVars, classVars>>
  /\ UNCHANGED winmainVars

\* BootmgrStartup: SetDefaultDllDirectories; a failure is only logged.
SetDefaultDllDirectories ==
  /\ bpc = "set_dll_dirs"
  /\ LET ok == "SetDefaultDllDirectories" \notin env_fail
     IN /\ blog' = IF ok THEN blog ELSE Append(blog, SEARCH_ORDER_WARNING)
        /\ Fallible("SetDefaultDllDirectories", AfterHardening(ok),
                    [kind |-> "IOError", detail |-> SEARCH_ORDER_WARNING,
                     symbol |-> None, path |-> None])
  /\ UNCHANGED <<bootEnv, command_line, insecure_flag, boot_manager_flags,
                 boot_manager_path, handle, entry, rv, exit_status>>
  /\ UNCHANGED entry_args
  /\ UNCHANGED <<kernelVars, histVars, classVars>>
  /\ wsteps' = Append(wsteps, Step("call", "BootmgrStartup"))
  /\ UNCHANGED scoped

\* BootmgrStartup: win::GetApplicationDirectory(instance).
GetApplicationDirectory ==
  /\ bpc = "get_app_dir"
  /\ Fallible("GetApplicationDirectory",
              AfterAppDir("GetApplicationDirectory" \notin env_fail),
              [kind |-> "IOError", detail |-> "Can't get current directory",
               symbol |-> None, path |-> None])
  /\ UNCHANGED <<bootEnv, command_line, insecure_flag, boot_manager_flags,
                 boot_manager_path, handle, entry, blog, rv, exit_status>>
  /\ UNCHANGED entry_args
  /\ UNCHANGED <<kernelVars, histVars, classVars>>
  /\ UNCHANGED winmainVars

\* BootmgrStartup: boot_manager_path and boot_manager_flags.
BuildLoadArguments ==
  /\ bpc = "build_load_args"
  /\ platform = WIN
  /\ boot_manager_path' = "app_path/whitebox-boot-manager.dll"
  /\ boot_manager_flags' = BootManagerFlags(insecure_flag)
  /\ bpc' = "load"
  /\ UNCHANGED <<bootEnv, command_line, insecure_flag, handle, entry, steps,
                 reports, blog, rv, exit_status>>
  /\ UNCHANGED entry_args
  /\ UNCHANGED <<kernelVars, histVars, classVars>>
  /\ UNCHANGED winmainVars

\* main (Mac): _NSGetExecutablePath(nullptr, &exec_path_size).
MacExecutablePathLength ==
  /\ bpc = "ns_length"
  /\ Fallible("_NSGetExecutablePath(length)",
              IF "_NSGetExecutablePath(length)" \in env_fail
                THEN "fatal" ELSE "ns_path",
              [kind |-> "IOError",
               detail |-> "_NSGetExecutablePath: get length failed",
               symbol |-> None, path |-> None])
  /\ UNCHANGED <<bootEnv, command_line, insecure_flag, boot_manager_flags,
                 boot_manager_path, handle, entry, blog, rv, exit_status>>
  /\ UNCHANGED entry_args
  /\ UNCHANGED <<kernelVars, histVars, classVars>>
  /\ UNCHANGED winmainVars

\* main (Mac): _NSGetExecutablePath(exec_path.get(), &exec_path_size).
MacExecutablePath ==
  /\ bpc = "ns_path"
  /\ Fallible("_NSGetExecutablePath(path)",
              IF "_NSGetExecutablePath(path)" \in env_fail
                THEN "fatal" ELSE "dirname",
              [kind |-> "IOError",
               detail |-> "_NSGetExecutablePath: get path failed",
               symbol |-> None, path |-> None])
  /\ UNCHANGED <<bootEnv, command_line, insecure_flag, boot_manager_flags,
                 boot_manager_path, handle, entry, blog, rv, exit_status>>
  /\ UNCHANGED entry_args
  /\ UNCHANGED <<kernelVars, histVars, classVars>>
  /\ UNCHANGED winmainVars

\* main (Mac): dirname(exec_path.get()).
MacDirname ==
  /\ bpc = "dirname"
  /\ Fallible("dirname",
              IF "dirname" \in env_fail THEN "fatal" ELSE "build_load_args",
              [kind |-> "IOError", detail |-> "dirname",
               symbol |-> None, path |-> None])
  /\ UNCHANGED <<bootEnv, command_line, insecure_flag, boot_manager_flags,
                 boot_manager_path, handle, entry, blog, rv, exit_status>>
  /\ UNCHANGED entry_args
  /\ UNCHANGED <<kernelVars, histVars, classVars>>
  /\ UNCHANGED winmainVars

\* main (Mac): framework_path and the dlopen flags.
MacBuildFrameworkPath ==
  /\ bpc = "build_load_args"
  /\ platform = MAC
  /\ boot_manager_path' = "parent_dir/rel_path/libwhitebox-boot-manager.dylib"
  /\ boot_manager_flags' = MacLoadFlags
  /\ bpc' = "load"
  /\ UNCHANGED <<bootEnv, command_line, insecure_flag, handle, entry, steps,
                 reports, blog, rv, exit_status>>
  /\ UNCHANGED entry_args
  /\ UNCHANGED <<kernelVars, histVars, classVars>>
  /\ UNCHANGED winmainVars

\* ScopedSharedLibrary::FromLibraryOnPath(path, flags), and the branch on
\* its result.
Load ==
  /\ bpc = "load"
  /\ LET ok == LoadSucceeds(boot_manager_flags)
     IN /\ handle' = IF ok THEN "open" ELSE handle
        /\ Fallible("Load", AfterLoad(ok),
                    [kind |-> "ModuleLoadError",
                     detail |-> "Can't load boot manager",
                     symbol |-> None, path |-> boot_manager_path])
  /\ UNCHANGED <<bootEnv, command_line, insecure_flag, boot_manager_flags,
                 boot_manager_path, entry, blog, rv, exit_status>>
  /\ UNCHANGED entry_args
  /\ UNCHANGED <<kernelVars, histVars, classVars>>
  /\ UNCHANGED winmainVars

\* GetAddressAs<BootmgrMain>(name), and the branch on its result.
Resolve ==
  /\ bpc = "resolve"
  /\ LET ok == ResolveSucceeds(EntrySymbol)
     IN /\ entry' = IF ok THEN EntrySymbol ELSE entry
        /\ Fallible("Resolve", AfterResolve(ok),
                    [kind |-> "SymbolResolutionError",
                     detail |-> "Can't get entry point",
                     symbol |-> EntrySymbol, path |-> boot_manager_path])
  /\ UNCHANGED <<bootEnv, command_line, insecure_flag, boot_manager_flags,
                 boot_manager_path, handle, blog, rv, exit_status>>
  /\ UNCHANGED entry_args
  /\ UNCHANGED <<kernelVars, histVars, classVars>>
  /\ UNCHANGED winmainVars

\* (*boot_manager_main)(...) / boot_manager_main(argc, argv).
Invoke ==
  /\ bpc = "invoke"
  /\ steps' = Append(steps, "Invoke")
  /\ rv' = Some(entry_rv)
  /\ entry_args' = EntryArguments
  /\ bpc' = IF platform = WIN THEN "bootmgr_return" ELSE "mac_exit"
  /\ handle' = LibraryDuringCall(handle)
  /\ UNCHANGED <<bootEnv, command_line, insecure_flag, boot_manager_flags,
                 boot_manager_path, entry, reports, blog,
                 exit_status>>
  /\ UNCHANGED <<kernelVars, histVars, classVars>>
  /\ UNCHANGED winmainVars

\* BootmgrStartup returns: boot_manager_library goes out of scope.
BootmgrStartupReturn ==
  /\ bpc = "bootmgr_return"
  /\ rv' = IF rv = NoInt THEN rv ELSE Some(BootmgrStartupResult(rv[1]))
  /\ handle' = LibraryAtScopeExit(handle)
  /\ bpc' = "winmain_return"
  /\ UNCHANGED <<bootEnv, command_line, insecure_flag, boot_manager_flags,
                 boot_manager_path, entry, steps, reports, blog, exit_status>>
  /\ UNCHANGED entry_args
  /\ UNCHANGED <<kernelVars, histVars, classVars>>
  /\ wsteps' = Append(wsteps, Step("return", "BootmgrStartup"))
  /\ UNCHANGED scoped

\* WinMain: return BootmgrStartup(...) destroys the locals of WinMain.
DestroyScoped ==
  /\ bpc = "winmain_return"
  /\ scoped # <<>>
  /\ LET i == DestroyedNext(scoped)
     IN /\ wsteps' = Append(wsteps, Step("release", scoped[i]))
        /\ scoped' = Without(scoped, i)
  /\ UNCHANGED <<bootEnv, bpc, command_line, insecure_flag, boot_manager_flags,
                 boot_manager_path, handle, entry, steps, reports, blog, rv,
                 entry_args, exit_status>>
  /\ UNCHANGED <<kernelVars, histVars, classVars>>

\* WinMain: the value of return BootmgrStartup(...) is the exit status.
WinMainReturn ==
  /\ bpc = "winmain_return"
  /\ scoped = <<>>
  /\ exit_status' = IF rv = NoInt THEN rv ELSE Some(WinMainResult(rv[1]))
  /\ bpc' = "exited"
  /\ UNCHANGED <<bootEnv, command_line, insecure_flag, boot_manager_flags,
                 boot_manager_path, handle, entry, steps, reports, blog, rv>>
  /\ UNCHANGED entry_args
  /\ UNCHANGED <<kernelVars, histVars, classVars>>
  /\ UNCHANGED winmainVars

\* main (Mac): exit(rv).
MacExit ==
  /\ bpc = "mac_exit"
  /\ exit_status' = Some(MacExitArgument(rv[1]))
  /\ bpc' = "exited"
  /\ UNCHANGED <<bootEnv, command_line, insecure_flag, boot_manager_flags,
                 boot_manager_path, handle, entry, steps, reports, blog, rv>>
  /\ UNCHANGED entry_args
  /\ UNCHANGED <<kernelVars, histVars, classVars>>
  /\ UNCHANGED winmainVars

BootNext ==
  \/ WinMainStart \/ ConstructScoped \/ ParseCommandLine \/ NewScoped
  \/ SetDefaultDllDirectories \/ GetApplicationDirectory
  \/ BuildLoadArguments
  \/ MacExecutablePathLength \/ MacExecutablePath \/ MacDirname
  \/ MacBuildFrameworkPath
  \/ Load \/ Resolve \/ Invoke
  \/ BootmgrStartupReturn \/ DestroyScoped \/ WinMainReturn \/ MacExit

\* The kernel is not running while the launcher is looked at.
KernelIdle ==
  /\ variant = None /\ kpc = "idle" /\ exit_code = 0 /\ is_done = FALSE
  /\ maybe_dispatch_rc = NoRc /\ clock = 0 /\ loop_iteration_start_time = 0
  /\ delta_time = 0 /\ mouse_input_queue = <<>>
  /\ keyboard_input_queue = <<>> /\ window_alive = FALSE /\ log = <<>>
  /\ kernel_reports = <<>> /\ dm_rv = NoInt /\ kernel_rv = NoInt
  /\ iterations = 0 /\ sim_calls = 0 /\ quit_seen = FALSE
  /\ quit_code = NoInt /\ bursts_before_quit = 0 /\ sim_after_quit = 0
  /\ stop_cause = None /\ pushed_mouse = <<>> /\ pushed_keyboard = <<>>
  /\ drained_mouse = <<>> /\ drained_keyboard = <<>>
  /\ quit_tail = {} /\ previous_reading = 0 /\ delta_computed_in = 0
  /\ delta_sum = 0 /\ first_timestamp = 0
  /\ sim_args = NoArgs /\ trace = <<>> /\ alive = {} /\ ksteps = <<>>
  /\ dead_access = FALSE

InitBoot == BootInit /\ KernelIdle /\ ClassesIdle
NextBoot == BootNext
SpecBoot == InitBoot /\ [][NextBoot]_vars

-----------------------------------------------------------------------------
(* ScopedNewHandler (base/include/scoped_new_handler.h and its Windows     *)
(* twin): properly nested scopes on one thread.                            *)

\* Scopes nested inside one another.
MaxNesting == 3
NewHandlers == {"nullptr", "DefaultNewFailureHandler", "AnotherHandler"}
NewHandlerApis == {"std::set_new_handler", "::_set_new_handler"}

\* std::set_new_handler / ::_set_new_handler: installs the handler and
\* returns the one that was installed.
set_new_handler_ReturnsNew(installed, handler) ==
  [installed |-> handler, returned |-> handler]
set_new_handler(installed, handler) ==
  [installed |-> handler, returned |-> installed]

NewHandlerInit ==
  /\ new_handler \in NewHandlers
  /\ nh_api \in NewHandlerApis
  /\ nh_scopes = <<>>
  /\ nh_hist = <<>>
  /\ nh_last = <<>>

\* ScopedNewHandler(new_handler): previous_new_handler_ is what the set call
\* returns.
ScopedNewHandlerCtor ==
  /\ Len(nh_scopes) < MaxNesting
  /\ \E handler \in NewHandlers :
       LET call == set_new_handler(new_handler, handler)
       IN /\ new_handler' = call.installed
          /\ nh_scopes' = Append(nh_scopes, call.returned)
          /\ nh_hist' = Append(nh_hist, [given |-> handler,
                                         before |-> new_handler])
  /\ UNCHANGED <<nh_api, nh_last>>
  /\ UNCHANGED <<kernelVars, histVars, bootVars, comPolicyVars, threadNameVars,
                 sdlWindowVars>>

\* ~ScopedNewHandler of the innermost live object.
ScopedNewHandlerDtor ==
  /\ nh_scopes # <<>>
  /\ LET top == Len(nh_scopes)
         call == set_new_handler(new_handler, nh_scopes[top])
     IN /\ new_handler' = call.installed
        /\ nh_scopes' = SubSeq(nh_scopes, 1, top - 1)
        /\ nh_last' = <<nh_hist[top]>>
        /\ nh_hist' = SubSeq(nh_hist, 1, top - 1)
  /\ UNCHANGED nh_api
  /\ UNCHANGED <<kernelVars, histVars, bootVars, comPolicyVars, threadNameVars,
                 sdlWindowVars>>

InitNewHandler ==
  /\ NewHandlerInit /\ KernelIdle /\ BootIdle
  /\ ComPolicyIdle /\ ThreadNameIdle /\ SdlWindowIdle
NextNewHandler == ScopedNewHandlerCtor \/ ScopedNewHandlerDtor
SpecNewHandler == InitNewHandler /\ [][NextNewHandler]_vars

-----------------------------------------------------------------------------
(* ScopedComStrongUnmarshallingPolicy                                      *)
(* (base/windows/com/scoped_com_strong_unmarshalling_policy.h).            *)

COMGLB_UNMARSHALING_POLICY_NORMAL == "COMGLB_UNMARSHALING_POLICY_NORMAL"
COMGLB_UNMARSHALING_POLICY_STRONG == "COMGLB_UNMARSHALING_POLICY_STRONG"
COMGLB_UNMARSHALING_POLICY_HYBRID == "COMGLB_UNMARSHALING_POLICY_HYBRID"
UnmarshalingPolicies == {COMGLB_UNMARSHALING_POLICY_NORMAL,
                         COMGLB_UNMARSHALING_POLICY_STRONG,
                         COMGLB_UNMARSHALING_POLICY_HYBRID}
\* The COM calls of the class that may fail in a run.
ComPolicyCalls == {"CreateInstance", "Query", "Set(constructor)",
                   "Set(destructor)"}
\* The member initializer old_global_unmarshalling_policy_option_value_{0}.
ZeroPolicyValue == COMGLB_UNMARSHALING_POLICY_NORMAL

\* The condition under which constructor and destructor call Set.
WritesPolicy_Always(error, old) == TRUE
WritesPolicy(error, old) ==
  ~error /\ old # COMGLB_UNMARSHALING_POLICY_STRONG

ComPolicyInit ==
  /\ com_policy \in UnmarshalingPolicies
  /\ cp_debug \in BOOLEAN
  /\ cp_fail \in SUBSET ComPolicyCalls
  /\ cp_pc = "none"
  /\ error_code_ = FALSE
  /\ old_value_ = None
  /\ cp_queried = <<>>
  /\ cp_initial = com_policy
  /\ cp_writes = <<>>

\* The constructor: CreateInstance, Query, Set when the old value is not
\* the strong one, G3DCHECK(!error_code()).
ScopedComStrongUnmarshallingPolicyCtor ==
  /\ cp_pc = "none"
  /\ LET created == "CreateInstance" \notin cp_fail
         queried == created /\ "Query" \notin cp_fail
         old == IF queried THEN com_policy ELSE ZeroPolicyValue
         sets == WritesPolicy(~queried, old)
         set_ok == "Set(constructor)" \notin cp_fail
         error == ~queried \/ (sets /\ ~set_ok)
     IN /\ old_value_' = old
        /\ cp_queried' = IF queried THEN <<com_policy>> ELSE <<>>
        /\ com_policy' = IF sets /\ set_ok
                            THEN COMGLB_UNMARSHALING_POLICY_STRONG
                            ELSE com_policy
        /\ cp_writes' =
             IF sets /\ set_ok
               THEN Append(cp_writes,
                           [by |-> "constructor",
                            value |-> COMGLB_UNMARSHALING_POLICY_STRONG])
               ELSE cp_writes
        /\ error_code_' = error
        /\ cp_pc' = IF error /\ cp_debug THEN "aborted" ELSE "alive"
  /\ UNCHANGED <<cp_debug, cp_fail, cp_initial>>
  /\ UNCHANGED <<kernelVars, histVars, bootVars, newHandlerVars, threadNameVars,
                 sdlWindowVars>>

\* The destructor: Set(old value) under the same condition; G3CHECK ends
\* the process when that Set fails.
ScopedComStrongUnmarshallingPolicyDtor ==
  /\ cp_pc = "alive"
  /\ LET sets == WritesPolicy(error_code_, old_value_)
         set_ok == "Set(destructor)" \notin cp_fail
     IN /\ com_policy' = IF sets /\ set_ok THEN old_value_ ELSE com_policy
        /\ cp_writes' =
             IF sets /\ set_ok
               THEN Append(cp_writes, [by |-> "destructor",
                                       value |-> old_value_])
               ELSE cp_writes
        /\ cp_pc' = IF sets /\ ~set_ok THEN "aborted" ELSE "destroyed"
  /\ UNCHANGED <<cp_debug, cp_fail, error_code_, old_value_, cp_queried,
                 cp_initial>>
  /\ UNCHANGED <<kernelVars, histVars, bootVars, newHandlerVars, threadNameVars,
                 sdlWindowVars>>

InitComPolicy ==
  /\ ComPolicyInit /\ KernelIdle /\ BootIdle
  /\ NewHandlerIdle /\ ThreadNameIdle /\ SdlWindowIdle
NextComPolicy ==
  ScopedComStrongUnmarshallingPolicyCtor
    \/ ScopedComStrongUnmarshallingPolicyDtor
SpecComPolicy == InitComPolicy /\ [][NextComPolicy]_vars

-----------------------------------------------------------------------------
(* ScopedThreadName (base/threads/thread_utils.h).                         *)

ThreadNames == {"", "main", "worker"}
ScopedNames == {"scoped", "main"}
ThreadNameCalls == {"GetThreadName", "SetThreadName(constructor)",
                    "SetThreadName(destructor)"}
EMPTY_STRING == ""

\* error_code_ is declared before old_thread_name_, so its initializer
\* GetThreadName(thread, old_thread_name_) writes into a std::string whose
\* lifetime has not begun; the string is default-constructed afterwards.
\* The behaviour is undefined.  What a build can make of it: the string
\* constructed afterwards is empty, the name written early survives, or the
\* write into the unconstructed string ends the process.
EarlyWriteOutcomes == {"emptied", "survives", "crashes"}
OldNameAfterConstruction(build, written) ==
  IF build = "survives" THEN written ELSE EMPTY_STRING

ThreadNameInit ==
  /\ thread_name \in ThreadNames
  /\ tn_fail \in SUBSET ThreadNameCalls
  /\ tn_build \in EarlyWriteOutcomes
  /\ tn_new_name \in ScopedNames
  /\ tn_pc = "none"
  /\ tn_error_code_ = FALSE
  /\ old_thread_name_ = EMPTY_STRING
  /\ tn_before = thread_name
  /\ tn_writes = <<>>

\* The constructor: GetThreadName into old_thread_name_, G3CHECK on its
\* result, then SetThreadName(new name).
ScopedThreadNameCtor ==
  /\ tn_pc = "none"
  /\ LET got == "GetThreadName" \notin tn_fail
         crashed == got /\ tn_build = "crashes"
         set_ok == "SetThreadName(constructor)" \notin tn_fail
         sets == got /\ ~crashed
     IN /\ old_thread_name_' =
             IF got THEN OldNameAfterConstruction(tn_build, thread_name)
                    ELSE EMPTY_STRING
        /\ tn_error_code_' = (~got \/ (sets /\ ~set_ok))
        /\ thread_name' = IF sets /\ set_ok THEN tn_new_name ELSE thread_name
        /\ tn_writes' =
             IF sets /\ set_ok
               THEN Append(tn_writes, [by |-> "constructor",
                                       value |-> tn_new_name])
               ELSE tn_writes
        /\ tn_pc' = IF ~got \/ crashed THEN "aborted" ELSE "alive"
  /\ UNCHANGED <<tn_fail, tn_build, tn_new_name, tn_before>>
  /\ UNCHANGED <<kernelVars, histVars, bootVars, newHandlerVars,
                 comPolicyVars, sdlWindowVars>>

\* The destructor: SetThreadName(old_thread_name_) when no error is
\* recorded; G3CHECK ends the process when that call fails.
ScopedThreadNameDtor ==
  /\ tn_pc = "alive"
  /\ LET sets == ~tn_error_code_
         set_ok == "SetThreadName(destructor)" \notin tn_fail
     IN /\ thread_name' = IF sets /\ set_ok THEN old_thread_name_
                                             ELSE thread_name
        /\ tn_writes' =
             IF sets /\ set_ok
               THEN Append(tn_writes, [by |-> "destructor",
                                       value |-> old_thread_name_])
               ELSE tn_writes
        /\ tn_pc' = IF sets /\ ~set_ok THEN "aborted" ELSE "destroyed"
  /\ UNCHANGED <<tn_fail, tn_build, tn_new_name, tn_error_code_,
                 old_thread_name_, tn_before>>
  /\ UNCHANGED <<kernelVars, histVars, bootVars, newHandlerVars,
                 comPolicyVars, sdlWindowVars>>

InitThreadName ==
  /\ ThreadNameInit /\ KernelIdle /\ BootIdle
  /\ NewHandlerIdle /\ ComPolicyIdle /\ SdlWindowIdle
NextThreadName == ScopedThreadNameCtor \/ ScopedThreadNameDtor
SpecThreadName == InitThreadName /\ [][NextThreadName]_vars

-----------------------------------------------------------------------------
(* SdlWindow (base/deps/sdl/sdl_window.h) and the MainWindow that holds   *)
(* one (kernel/main_window_posix.h).                                       *)

\* Objects that may be constructed in a run, and native windows that
\* SDL_CreateWindow may hand out.
MaxObjects == 3
MaxWindows == 2
SdlObjects == 1..MaxObjects
NativeWindows == 1..MaxWindows
nullptr == 0
NoObject == 0

\* ::SDL_CreateWindow: a new native window, or nullptr.
SDL_CreateWindow(ok, next) == IF ok THEN next ELSE nullptr
\* The private constructor: init_rc_ is success iff window_ is not null.
IsSucceeded(window_) == window_ # nullptr

\* SdlWindow(SdlWindow &&w): takes w.window_ and sets w.window_ = nullptr.
SdlWindowMove_KeepsSource(w) == [this |-> w, w |-> w]
SdlWindowMove(w) == [this |-> w, w |-> nullptr]
\* operator=(SdlWindow &&w): std::swap(window_, w.window_).
SdlWindowMoveAssign(this, w) == [this |-> w, w |-> this]
\* ~SdlWindow(): the native windows handed to ::SDL_DestroyWindow.
SdlWindowDtor(window_) == IF window_ # nullptr THEN {window_} ELSE {}

\* MainWindow::operator=(MainWindow&&): std::swap(window_, w.window_) on
\* the two SdlWindow members; std::swap is T tmp(std::move(a));
\* a = std::move(b); b = std::move(tmp); and tmp is destroyed.
StdSwap(a, b) ==
  LET tmp0 == SdlWindowMove(a)
      s1   == SdlWindowMoveAssign(tmp0.w, b)
      s2   == SdlWindowMoveAssign(s1.w, tmp0.this)
  IN [this |-> s1.this, w |-> s2.this, destroyed |-> SdlWindowDtor(s2.w)]

\* SDL_DestroyWindow called once on each window of the set.
DestroyWindows(counts, set) ==
  [n \in NativeWindows |-> counts[n] + (IF n \in set THEN 1 ELSE 0)]

\* What an operation leaves in the history.
SdlOp(op, this, w, had, destroyed) ==
  <<[op |-> op, this |-> this, w |-> w, had |-> had, destroyed |-> destroyed]>>

SdlWindowInit ==
  /\ sdl_objects = [o \in SdlObjects |-> [life |-> "none", window_ |-> nullptr]]
  /\ sdl_created = 0
  /\ sdl_destroyed = [n \in NativeWindows |-> 0]
  /\ sdl_debug \in BOOLEAN
  /\ sdl_aborted = FALSE
  /\ sdl_last = <<>>

\* SdlWindow::New: the local window is constructed; on success the result
\* is move-constructed from it; the local is destroyed at the return.  In a
\* build with G3DCHECK a failed SDL_CreateWindow ends the process inside the
\* constructor.
SdlWindowNew ==
  /\ ~sdl_aborted
  /\ \E o \in SdlObjects, ok \in BOOLEAN :
       /\ sdl_objects[o].life = "none"
       /\ ok => sdl_created < MaxWindows
       /\ LET window    == SDL_CreateWindow(ok, sdl_created + 1)
              succeeded == IsSucceeded(window)
              result    == SdlWindowMove(window)
              local     == IF succeeded THEN result.w ELSE window
              gone      == SdlWindowDtor(local)
          IN IF ~succeeded /\ sdl_debug
               THEN /\ sdl_aborted' = TRUE
                    /\ sdl_last' = SdlOp("New aborted", o, NoObject, nullptr, {})
                    /\ UNCHANGED <<sdl_objects, sdl_created, sdl_destroyed>>
               ELSE /\ sdl_objects' =
                         IF succeeded
                           THEN [sdl_objects EXCEPT
                                   ![o] = [life |-> "alive",
                                           window_ |-> result.this]]
                           ELSE sdl_objects
                    /\ sdl_created' = IF succeeded THEN sdl_created + 1
                                                   ELSE sdl_created
                    /\ sdl_destroyed' = DestroyWindows(sdl_destroyed, gone)
                    /\ sdl_last' = SdlOp(IF succeeded THEN "New" ELSE "New failed",
                                         o, NoObject, nullptr, gone)
                    /\ UNCHANGED sdl_aborted
  /\ UNCHANGED sdl_debug
  /\ UNCHANGED <<kernelVars, histVars, bootVars, newHandlerVars,
                 comPolicyVars, threadNameVars>>

\* SdlWindow(SdlWindow &&w) / MainWindow(MainWindow&& w).
SdlWindowMoveCtor ==
  /\ ~sdl_aborted
  /\ \E o \in SdlObjects, w \in SdlObjects :
       /\ sdl_objects[o].life = "none"
       /\ sdl_objects[w].life = "alive"
       /\ LET r == SdlWindowMove(sdl_objects[w].window_)
          IN /\ sdl_objects' =
                  [sdl_objects EXCEPT ![o] = [life |-> "alive",
                                              window_ |-> r.this],
                                      ![w].window_ = r.w]
             /\ sdl_last' = SdlOp("move constructor", o, w, nullptr, {})
  /\ UNCHANGED <<sdl_created, sdl_destroyed, sdl_debug, sdl_aborted>>
  /\ UNCHANGED <<kernelVars, histVars, bootVars, newHandlerVars,
                 comPolicyVars, threadNameVars>>

\* SdlWindow &operator=(SdlWindow &&w); w may be the object itself.
SdlWindowMoveAssignment ==
  /\ ~sdl_aborted
  /\ \E o \in SdlObjects, w \in SdlObjects :
       /\ sdl_objects[o].life = "alive"
       /\ sdl_objects[w].life = "alive"
       /\ LET r == SdlWindowMoveAssign(sdl_objects[o].window_,
                                       sdl_objects[w].window_)
          IN /\ sdl_objects' = [sdl_objects EXCEPT ![o].window_ = r.this,
                                                   ![w].window_ = r.w]
             /\ sdl_last' = SdlOp("move assignment", o, w,
                                  sdl_objects[o].window_, {})
  /\ UNCHANGED <<sdl_created, sdl_destroyed, sdl_debug, sdl_aborted>>
  /\ UNCHANGED <<kernelVars, histVars, bootVars, newHandlerVars,
                 comPolicyVars, threadNameVars>>

\* MainWindow& operator=(MainWindow&& w) on two MainWindow objects.
MainWindowMoveAssignment ==
  /\ ~sdl_aborted
  /\ \E o \in SdlObjects, w \in SdlObjects :
       /\ o # w
       /\ sdl_objects[o].life = "alive"
       /\ sdl_objects[w].life = "alive"
       /\ LET r == StdSwap(sdl_objects[o].window_, sdl_objects[w].window_)
          IN /\ sdl_objects' = [sdl_objects EXCEPT ![o].window_ = r.this,
                                                   ![w].window_ = r.w]
             /\ sdl_destroyed' = DestroyWindows(sdl_destroyed, r.destroyed)
             /\ sdl_last' = SdlOp("MainWindow move assignment", o, w,
                                  sdl_objects[o].window_, r.destroyed)
  /\ UNCHANGED <<sdl_created, sdl_debug, sdl_aborted>>
  /\ UNCHANGED <<kernelVars, histVars, bootVars, newHandlerVars,
                 comPolicyVars, threadNameVars>>

\* ~SdlWindow().
SdlWindowDestroy ==
  /\ ~sdl_aborted
  /\ \E o \in SdlObjects :
       /\ sdl_objects[o].life = "alive"
       /\ LET gone == SdlWindowDtor(sdl_objects[o].window_)
          IN /\ sdl_objects' =
                  [sdl_objects EXCEPT ![o] = [life |-> "destroyed",
                                              window_ |-> nullptr]]
             /\ sdl_destroyed' = DestroyWindows(sdl_destroyed, gone)
             /\ sdl_last' = SdlOp("destructor", o, NoObject,
                                  sdl_objects[o].window_, gone)
  /\ UNCHANGED <<sdl_created, sdl_debug, sdl_aborted>>
  /\ UNCHANGED <<kernelVars, histVars, bootVars, newHandlerVars,
                 comPolicyVars, threadNameVars>>

InitSdlWindow ==
  /\ SdlWindowInit /\ KernelIdle /\ BootIdle
  /\ NewHandlerIdle /\ ComPolicyIdle /\ ThreadNameIdle
NextSdlWindow ==
  \/ SdlWindowNew \/ SdlWindowMoveCtor \/ SdlWindowMoveAssignment
  \/ MainWindowMoveAssignment \/ SdlWindowDestroy
SpecSdlWindow == InitSdlWindow /\ [][NextSdlWindow]_vars

-----------------------------------------------------------------------------
(* Properties of the main loop.                                            *)

LoopLeft ==
  kpc \in {"dm_log", "dm_return", "kernel_return", "unwind", "returned"}

\* C1: in kernel/main_win.cc, once a quit message has been observed no
\* SimulateWorldStep call is made any more, and when the loop has returned
\* after a quit the number of SimulateWorldStep calls equals the number of
\* bursts completed before the burst that held the quit.
C1_NoSimulateStepAfterQuit ==
  (variant = KERNEL_WIN /\ quit_seen) =>
    /\ sim_after_quit = 0
    /\ (kpc = "returned" => sim_calls = bursts_before_quit)

\* C2: when the Windows loop stops because of a quit message, exit_code,
\* the value DispatchMessages returns and the value KernelMain returns are
\* all the exit code that quit message carried; KernelMain returns what
\* DispatchMessages returned in every variant.
C2_QuitCodeIsReturned ==
  /\ (IsWin /\ stop_cause = "quit") =>
       /\ Some(exit_code) = quit_code
       /\ (dm_rv # NoInt => dm_rv = quit_code)
       /\ (kernel_rv # NoInt => kernel_rv = quit_code)
  /\ (kernel_rv # NoInt => kernel_rv = dm_rv)

C2_Witness ==
  /\ variant = KERNEL_WIN /\ kpc = "returned" /\ stop_cause = "quit"
  /\ quit_code = Some(42) /\ dm_rv = Some(42) /\ kernel_rv = Some(42)

\* C3: in kernel/main_win.cc, once Dispatch has returned a result and the
\* loop has looked at it, the loop has been left with that result's value as
\* exit code: it is never again at the clock reading, at SimulateWorldStep
\* or at another Dispatch, and the value is what DispatchMessages returns.
C3_DispatchErrorStopsLoop ==
  (variant = KERNEL_WIN /\ maybe_dispatch_rc.has_value /\ kpc # "check_rc") =>
    /\ LoopLeft
    /\ stop_cause = "dispatch_error"
    /\ exit_code = maybe_dispatch_rc.value
    /\ (dm_rv # NoInt => dm_rv = Some(maybe_dispatch_rc.value))

C3_Witness ==
  /\ variant = KERNEL_WIN /\ kpc = "returned"
  /\ stop_cause = "dispatch_error" /\ maybe_dispatch_rc.value = 5
  /\ kernel_rv = Some(5) /\ sim_calls = 1 /\ iterations = 2

\* C4: for each InputQueue, at every moment the DrainAll results so far,
\* concatenated in call order, followed by what is still queued, are the
\* pushed events in Push order: nothing is lost, duplicated or reordered,
\* and right after a DrainAll the concatenation is the whole Push sequence.
C4_DrainsAreThePushes ==
  /\ drained_mouse \o mouse_input_queue = pushed_mouse
  /\ drained_keyboard \o keyboard_input_queue = pushed_keyboard

C4_Witness ==
  /\ drained_mouse = <<1>> /\ mouse_input_queue = <<2>>
  /\ drained_keyboard = <<1>> /\ keyboard_input_queue = <<2>>
  /\ sim_calls = 1

-----------------------------------------------------------------------------
(* Properties of the launcher.                                             *)

Did(step) == \E i \in 1..Len(steps) : steps[i] = step
Times(step) == Cardinality({ i \in 1..Len(steps) : steps[i] = step })

LoadFailed    == Did("Load") /\ handle = None
ResolveFailed == Did("Resolve") /\ entry = None
AppDirFailed  == /\ Did("GetApplicationDirectory")
                 /\ "GetApplicationDirectory" \in env_fail

\* C5: when loading the boot manager fails, the one report is a module
\* load error for that path, the process is over, and neither the symbol
\* resolution nor the entry point call was executed; on Windows an unsigned
\* module with the insecure override off always fails to load.
C5_LoadFailureStopsLauncher ==
  /\ LoadFailed =>
       /\ bpc = "terminated"
       /\ Len(reports) = 1
       /\ reports[1].kind = "ModuleLoadError"
       /\ reports[1].path = boot_manager_path
       /\ ~Did("Resolve") /\ ~Did("Invoke")
       /\ entry = None /\ rv = NoInt /\ exit_status = NoInt
  /\ (platform = WIN /\ Did("Load") /\ ~module_signed /\ ~insecure_flag)
       => LoadFailed

C5_Witness ==
  /\ platform = WIN /\ module_present /\ ~module_signed /\ ~insecure_flag
  /\ LoadFailed /\ bpc = "terminated"

\* C6: when the module loaded but the entry symbol is not found, the one
\* report is a symbol resolution error naming the symbol and the module
\* path, the process is over and the entry point was not called; an entry
\* point is only ever called after it was resolved in the module.
C6_ResolveFailureNeverInvokes ==
  /\ ResolveFailed =>
       /\ bpc = "terminated"
       /\ Len(reports) = 1
       /\ reports[1].kind = "SymbolResolutionError"
       /\ reports[1].symbol = EntrySymbol
       /\ reports[1].path = boot_manager_path
       /\ boot_manager_path # None
       /\ ~Did("Invoke") /\ rv = NoInt /\ exit_status = NoInt
  /\ Did("Invoke") => entry \in module_exports

C6_Witness ==
  /\ platform = WIN /\ handle = "open" /\ ResolveFailed
  /\ bpc = "terminated" /\ Len(reports) = 1

\* C7: the value the entry point returned is what every layer hands on:
\* whenever the launcher has an exit status, an entry point was invoked and
\* the status is the entry point's return value, on Windows and on Mac.
C7_EntryReturnIsExitStatus ==
  /\ rv # NoInt => (Did("Invoke") /\ rv = Some(entry_rv))
  /\ bpc = "exited" => (Did("Invoke") /\ exit_status = Some(entry_rv))
  /\ exit_status # NoInt => bpc = "exited"

C7_Witness ==
  /\ platform = WIN /\ bpc = "exited" /\ entry_rv = 7
  /\ exit_status = Some(7) /\ reports = <<>>

\* C8 as stated: on Windows every load asks for a signed target unless the
\* override flag is set, the override flag is set only if the user passed
\* the switch, and without the user's switch no unsigned module is loaded.
C8_OverrideOnlyByUserSwitch ==
  platform = WIN =>
    /\ Did("Load") => (\/ LOAD_LIBRARY_REQUIRE_SIGNED_TARGET \in boot_manager_flags
                       \/ insecure_flag)
    /\ insecure_flag => user_switch
    /\ (~user_switch /\ handle # None) => module_signed

\* C8 as amended: on Windows every load asks for a signed target unless the
\* override flag is set; the override flag is set exactly when the parsed
\* command line holds the switch, which is when the user passed it or the
\* launcher is a _DEBUG build; in a non-debug build without the user's
\* switch no unsigned module is loaded.
C8_OverrideBySwitchOrDebugBuild ==
  platform = WIN =>
    /\ Did("Load") =>
         (LOAD_LIBRARY_REQUIRE_SIGNED_TARGET \in boot_manager_flags
            <=> ~insecure_flag)
    /\ insecure_flag => (user_switch \/ debug_build)
    /\ Did("SetDefaultDllDirectories") =>
         (insecure_flag <=> (user_switch \/ debug_build))
    /\ (~user_switch /\ ~debug_build /\ handle # None) => module_signed

C8_Witness ==
  /\ platform = WIN /\ ~debug_build /\ ~user_switch
  /\ module_present /\ ~module_signed /\ Did("Load")
  /\ LOAD_LIBRARY_REQUIRE_SIGNED_TARGET \in boot_manager_flags
  /\ handle = None

\* C9: a run of the launcher produces at most one fatal report, a report
\* ends the process, and a failed Load or Resolve has produced exactly one
\* report with the failed step as the last loader step of the run: Load was
\* tried once and nothing was executed after the failure.
C9_OneReportThenTermination ==
  /\ Len(reports) <= 1
  /\ reports # <<>> => (bpc = "terminated" /\ exit_status = NoInt)
  /\ (LoadFailed \/ ResolveFailed) =>
       /\ Len(reports) = 1
       /\ bpc = "terminated"
       /\ steps[Len(steps)] = (IF LoadFailed THEN "Load" ELSE "Resolve")
       /\ Times("Load") = 1

C9_Witness ==
  /\ platform = WIN /\ ~module_present /\ LoadFailed
  /\ Len(reports) = 1 /\ Len(blog) = 1 /\ bpc = "terminated"

\* C10: when GetApplicationDirectory fails in BootmgrStartup, the one
\* report is the application directory error, the process is over, and no
\* module path was built, no module was loaded and no entry point invoked.
C10_AppDirFailureStopsLauncher ==
  AppDirFailed =>
    /\ bpc = "terminated"
    /\ Len(reports) = 1
    /\ reports[1].detail = "Can't get current directory"
    /\ boot_manager_path = None /\ boot_manager_flags = {}
    /\ ~Did("Load") /\ ~Did("Resolve") /\ ~Did("Invoke")
    /\ handle = None /\ entry = None /\ rv = NoInt

C10_Witness ==
  /\ AppDirFailed /\ bpc = "terminated" /\ Len(reports) = 1
  /\ steps[Len(steps)] = "GetApplicationDirectory"
\* C11: within the burst in which a quit message appears the quit wins:
\* whatever follows it in that burst (a second quit with another code
\* included) neither changes the captured exit code nor clears the done
\* mark.  The exit code is looked at while nothing but the quit handler has
\* written it (a dispatch error overwrites it later).
C11_QuitWinsItsBurst ==
  quit_seen =>
    /\ is_done
    /\ (IsWin /\ stop_cause # "dispatch_error" => Some(exit_code) = quit_code)
\* A quit followed in its burst by a second quit carrying another code
\* (Windows), or by an ordinary event (POSIX), has been pumped.
C11_Witness ==
  /\ quit_seen
  /\ \/ IsWin /\ ANOTHER_QUIT \in quit_tail
     \/ variant = WBK_POSIX /\ NOT_A_QUIT \in quit_tail

\* C12: for every iteration that reaches the simulation step, the delta
\* handed to SimulateWorldStep is the iteration's clock reading minus the
\* reading before it (the one taken just before the loop, for the first
\* iteration); it is never negative, the clock being non-decreasing, and
\* readings 100 ms apart give exactly 100 ms.
C12_DeltaIsReadingDifference ==
  /\ (kpc = "simulate" =>
        /\ delta_time = clock - previous_reading
        /\ delta_time >= 0)
  /\ (sim_calls > 0 /\ kpc # "simulate" =>
        /\ sim_args.delta_time = clock - previous_reading
        /\ sim_args.delta_time >= 0
        /\ (clock - previous_reading = 100 => sim_args.delta_time = 100))
\* The second call of SimulateWorldStep was made with readings 100 ms
\* apart, the first reading of the loop being later than the one taken
\* before the loop.
C12_Witness ==
  /\ sim_calls = 2
  /\ kpc = "loop_test"
  /\ clock - previous_reading = 100
  /\ sim_args.delta_time = 100
  /\ previous_reading > 0

\* C13: every iteration performs its steps in the order pump, check of the
\* dispatch result, clock reading, SimulateWorldStep; SimulateWorldStep runs
\* at most once per iteration, with the delta computed in that iteration
\* and with the mouse and the keyboard queue.
C13_IterationOrder ==
  LET order == <<"pump", "check", "clock", "simulate">>
  IN /\ variant = KERNEL_WIN =>
          /\ Len(trace) <= Len(order)
          /\ \A i \in 1..Len(trace) : trace[i] = order[i]
     /\ sim_calls <= iterations
     /\ sim_calls > 0 =>
          /\ sim_args.computed_in = sim_args.called_in
          /\ sim_args.mouse = "mouse_input_queue"
          /\ sim_args.keyboard = "keyboard_input_queue"
     /\ (trace # <<>> /\ trace[Len(trace)] = "simulate" =>
          /\ sim_args.delta_time = delta_time
          /\ sim_args.called_in = iterations)
\* The second iteration has performed all four steps.
C13_Witness ==
  /\ iterations = 2
  /\ sim_calls = 2
  /\ trace = <<"pump", "check", "clock", "simulate">>
  /\ sim_args.called_in = 2

\* C14: the loop is left only because a quit message was observed or
\* because Dispatch reported an error; once it is left, DispatchMessages
\* goes on to return and no further iteration runs in that KernelMain
\* invocation: no pump, no SimulateWorldStep, no way back into the loop.
C14_StopIsFinal ==
  [][ /\ (LoopLeft' => stop_cause' \in {"quit", "dispatch_error"})
      /\ (stop_cause' = "quit" => quit_seen' /\ is_done')
      /\ (stop_cause' = "dispatch_error" =>
            variant = KERNEL_WIN /\ maybe_dispatch_rc'.has_value)
      /\ (stop_cause' # None => LoopLeft')
      /\ (stop_cause # None =>
            /\ stop_cause' = stop_cause
            /\ iterations' = iterations
            /\ sim_calls' = sim_calls
            /\ trace' = trace
            /\ LoopLeft')
    ]_vars
\* KernelMain has returned after a loop of two iterations that a quit
\* message stopped.
C14_Witness ==
  /\ kpc = "returned"
  /\ stop_cause = "quit"
  /\ iterations = 2
  /\ kernel_rv # NoInt

\* C15: if every pump and every SimulateWorldStep call returns, a quit
\* message that is delivered leads to the loop being left and to
\* DispatchMessages returning an exit code, in the Windows loops and in the
\* POSIX loop.
C15_QuitLeadsToReturn ==
  quit_seen ~> (stop_cause # None /\ dm_rv # NoInt)
\* DispatchMessages has returned after a quit message that came in the
\* second burst.
C15_Witness ==
  /\ quit_seen
  /\ bursts_before_quit = 1
  /\ stop_cause = "quit"
  /\ dm_rv # NoInt

\* The warning lines of DispatchMessages that read as line.
LinesOf(line) == Cardinality({ i \in 1..Len(log) : log[i] = line })
\* DispatchMessages is past its last log statement.
LoggingDone == kpc = "dm_return" \/ dm_rv # NoInt

\* C16 as stated: when the loop has terminated exactly one warning line was
\* written if the terminal exit code is not zero, and none if it is zero,
\* whether a quit message or a dispatch error stopped the loop.
C16_OneWarningIffNonZero ==
  LoggingDone => Len(log) = (IF exit_code # 0 THEN 1 ELSE 0)
\* C16, amended: when the loop has terminated exactly one "exited with non
\* success code" warning was written if the terminal exit code is not zero
\* and none if it is zero, whatever stopped the loop; a dispatch error with
\* a non-zero code wrote one more warning, "received error", before it, and
\* no other warning line is written.
C16_ExitWarningIffNonZero ==
  LoggingDone =>
    /\ LinesOf(EXITED_WITH_CODE) = (IF exit_code # 0 THEN 1 ELSE 0)
    /\ LinesOf(RECEIVED_ERROR) =
         (IF stop_cause = "dispatch_error" /\ exit_code # 0 THEN 1 ELSE 0)
    /\ Len(log) = LinesOf(EXITED_WITH_CODE) + LinesOf(RECEIVED_ERROR)
    /\ (stop_cause = "quit" => Len(log) = (IF exit_code # 0 THEN 1 ELSE 0))
\* DispatchMessages has returned the non-zero code of a dispatch error, and
\* both warnings are in the log.
C16_Witness ==
  /\ dm_rv = Some(5)
  /\ stop_cause = "dispatch_error"
  /\ log = <<RECEIVED_ERROR, EXITED_WITH_CODE>>

\* The launcher process is over: it exited, or a fatal report ended it.
ProcessOver == bpc \in {"exited", "terminated"}

\* C17: the module handle the launcher opened is released on every exit
\* path of the loader call (entry returned, resolve failed with a fatal
\* report, exit(rv) on Mac) and is never left open; it is not handed to the
\* entry point.
C17_ReleasedOnEveryExitPath ==
  /\ (ProcessOver => handle # "open")
  /\ ModuleOwner \notin entry_args

\* Position of the first occurrence of step among the loader steps taken.
FirstAt(step) == CHOOSE i \in 1..Len(steps) :
                   /\ steps[i] = step
                   /\ \A j \in 1..(i - 1) : steps[j] # step
\* What decides, on Windows, whether the entry point gets called: the
\* command line parses, the application directory is found, the module
\* loads under the flags the command line gives, and it exports the symbol.
\* Whether the search-path restriction worked is not among them.
WinLauncherInvokes ==
  /\ "Args::FromCommandLine" \notin env_fail
  /\ "GetApplicationDirectory" \notin env_fail
  /\ LoadSucceeds(BootManagerFlags(ParseInsecureFlag(
        WinMainCommandLine(IF user_switch THEN {INSECURE_SWITCH} ELSE {},
                           debug_build))))
  /\ kBootManagerMainName \in module_exports

\* C18: BootmgrStartup attempts SetDefaultDllDirectories, once, before the
\* module load; when it fails one warning is logged and nothing else
\* changes: no fatal report is made for it, and the launcher loads,
\* resolves and invokes (or fails later) exactly as the other inputs decide.
C18_HardeningBeforeLoadNeverFatal ==
  platform = WIN =>
    /\ (Did("Load") =>
          /\ Times("SetDefaultDllDirectories") = 1
          /\ FirstAt("SetDefaultDllDirectories") < FirstAt("Load"))
    /\ (Did("SetDefaultDllDirectories") =>
          blog = (IF "SetDefaultDllDirectories" \in env_fail
                    THEN <<SEARCH_ORDER_WARNING>> ELSE <<>>))
    /\ (~Did("SetDefaultDllDirectories") => blog = <<>>)
    /\ (\A i \in 1..Len(reports) : reports[i].detail # SEARCH_ORDER_WARNING)
    /\ (ProcessOver =>
          /\ (bpc = "exited") = WinLauncherInvokes
          /\ (bpc = "exited" =>
                /\ Did("Load") /\ Did("Resolve") /\ Did("Invoke")
                /\ exit_status = Some(entry_rv)))
\* The restriction failed and was logged, and the launcher still loaded the
\* module, resolved the entry point, called it and exited with its value.
C18_Witness ==
  /\ platform = WIN
  /\ "SetDefaultDllDirectories" \in env_fail
  /\ blog = <<SEARCH_ORDER_WARNING>>
  /\ bpc = "exited"
  /\ Did("Invoke")
  /\ exit_status = Some(7)

\* Position of the first occurrence of a step in ksteps, 0 when there is none.
KAt(op, obj) ==
  IF \E i \in 1..Len(ksteps) : ksteps[i] = Step(op, obj)
    THEN CHOOSE i \in 1..Len(ksteps) :
           /\ ksteps[i] = Step(op, obj)
           /\ \A j \in 1..(i - 1) : ksteps[j] # Step(op, obj)
    ELSE 0
KTimes(op, obj) ==
  Cardinality({ i \in 1..Len(ksteps) : ksteps[i] = Step(op, obj) })
\* Positions of KernelMain between the call of DispatchMessages and its
\* return.
InDispatchMessages ==
  kpc \in {"loop_test", "dispatch", "check_rc", "clock", "simulate", "sleep",
           "dm_log", "dm_return"}

\* C19: in the Windows KernelMain, when the main window cannot be created
\* one fatal-dialog payload (title, error code, remediation hint, detail
\* message) is handed to the UI collaborator and the main loop is never
\* entered: no message is pumped, SimulateWorldStep is never called.  The
\* loop is entered only after the window was created, shown and updated,
\* in that order.
C19_WindowFailureNeverEntersLoop ==
  IsWin =>
    LET failed  == KAt("fail", "window_result") # 0
        entered == KAt("DispatchMessages", None) # 0
    IN /\ (failed =>
             /\ ~entered /\ ~InDispatchMessages
             /\ iterations = 0 /\ sim_calls = 0 /\ trace = <<>>
             /\ kpc \in {"fatal", "terminated"})
       /\ (failed /\ kpc = "terminated" =>
             /\ Len(kernel_reports) = 1
             /\ DOMAIN kernel_reports[1] = {"title", "error", "hint", "detail"}
             /\ kernel_reports[1].title = "{0} - Error"
             /\ kernel_reports[1].error = "window_result.error()"
             /\ kernel_reports[1].detail = "Unable to create main '{0}' window.")
       /\ (kernel_reports # <<>> => failed /\ kpc = "terminated")
       /\ (entered \/ InDispatchMessages \/ iterations > 0 \/ sim_calls > 0 =>
             /\ window_alive \/ kpc \in {"unwind", "returned"}
             /\ 0 < KAt("construct", "window_result")
             /\ KAt("construct", "window_result") < KAt("Show", None)
             /\ KAt("Show", None) < KAt("Update", None)
             /\ KAt("Update", None) < KAt("DispatchMessages", None))
\* The window of kernel/main_win.cc could not be created and the payload
\* has been handed to FatalDialog.
C19_Witness ==
  /\ variant = KERNEL_WIN
  /\ KAt("fail", "window_result") # 0
  /\ kpc = "terminated"
  /\ Len(kernel_reports) = 1
  /\ iterations = 0

\* C20: in kernel/main_win.cc the mouse and the keyboard InputQueue are
\* created once per KernelMain invocation, before the window that pushes
\* into them; they are alive for the whole run of the loop and are
\* destroyed only after the loop has exited and after the window has been
\* destroyed: no Push and no DrainAll ever meets a destroyed queue.
C20_QueuesOutliveWindowAndLoop ==
  variant = KERNEL_WIN =>
    /\ ~dead_access
    /\ \A q \in Queues :
         /\ KTimes("construct", q) <= 1
         /\ KTimes("destroy", q) <= 1
         /\ (q \in alive) =
              (KAt("construct", q) # 0 /\ KAt("destroy", q) = 0)
         /\ (KAt("construct", "window_result") # 0
               \/ KAt("fail", "window_result") # 0 => KAt("construct", q) # 0)
         /\ (KAt("destroy", q) # 0 =>
               /\ dm_rv # NoInt
               /\ 0 < KAt("destroy", "window_result")
               /\ KAt("destroy", "window_result") < KAt("destroy", q))
    /\ (window_alive \/ InDispatchMessages => Queues \subseteq alive)
    /\ (kpc = "returned" => alive = {} /\ ~window_alive)
\* KernelMain has returned after a loop in which the window pushed into
\* both queues and SimulateWorldStep drained them; both queues are gone,
\* the window before them.
C20_Witness ==
  /\ variant = KERNEL_WIN
  /\ kpc = "returned"
  /\ pushed_mouse # <<>> /\ pushed_keyboard # <<>>
  /\ drained_mouse # <<>> /\ drained_keyboard # <<>>
  /\ KAt("destroy", "mouse_input_queue") = Len(ksteps)

-----------------------------------------------------------------------------
\* C21: DrainAll never waits for a Push (SimulateWorldStep can always take its
\* step); a DrainAll on an empty InputQueue returns nothing and leaves the
\* queue empty; after any DrainAll the queue is empty, and it stays empty
\* until the next Push.
C21_DrainAllOnEmptyQueue ==
  /\ [](kpc = "simulate" => ENABLED SimulateWorldStep)
  /\ [][ /\ (sim_calls' # sim_calls) =>
             /\ mouse_input_queue' = <<>>
             /\ keyboard_input_queue' = <<>>
             /\ (mouse_input_queue = <<>> => drained_mouse' = drained_mouse)
             /\ (keyboard_input_queue = <<>> =>
                   drained_keyboard' = drained_keyboard)
         /\ (mouse_input_queue = <<>> /\ mouse_input_queue' # <<>>) =>
               pushed_mouse' # pushed_mouse
         /\ (keyboard_input_queue = <<>> /\ keyboard_input_queue' # <<>>) =>
               pushed_keyboard' # pushed_keyboard ]_vars

\* Two drains have run: the mouse queue was empty both times, the keyboard
\* queue held an event once and is empty again.
C21_Witness ==
  /\ sim_calls >= 2
  /\ pushed_mouse = <<>> /\ drained_mouse = <<>> /\ mouse_input_queue = <<>>
  /\ drained_keyboard # <<>> /\ keyboard_input_queue = <<>>

-----------------------------------------------------------------------------
(* Properties of WinMain's scoped resources.                               *)

WAt(op, obj) ==
  CHOOSE i \in 0..Len(wsteps) :
    /\ i > 0 => wsteps[i] = Step(op, obj)
    /\ \A j \in 1..Len(wsteps) : wsteps[j] = Step(op, obj) => i > 0 /\ i <= j
WTimes(op, obj) ==
  Cardinality({ i \in 1..Len(wsteps) : wsteps[i] = Step(op, obj) })
ScopedResources == { WinMainScoped[i] : i \in 1..Len(WinMainScoped) }
BootmgrStartupCalled == WTimes("call", "BootmgrStartup") > 0
BootmgrStartupReturned == WTimes("return", "BootmgrStartup") > 0
WinMainReturned == platform = WIN /\ bpc = "exited"
\* The acquired resources are released in the reverse order of acquisition.
ReleasedInReverse ==
  \A r1, r2 \in ScopedResources :
    (/\ WTimes("acquire", r1) = 1 /\ WTimes("acquire", r2) = 1
     /\ WAt("acquire", r1) < WAt("acquire", r2)) =>
      /\ WTimes("release", r1) = 1 /\ WTimes("release", r2) = 1
      /\ WAt("release", r2) < WAt("release", r1)
LoggingFirstAndLast ==
  /\ wsteps[1] = Step("acquire", "ScopedG3LogInitializer")
  /\ wsteps[Len(wsteps)] = Step("release", "ScopedG3LogInitializer")

\* C22 as stated: each of the six scoped resources of WinMain is acquired
\* exactly once, before BootmgrStartup is called; after BootmgrStartup has
\* returned they are released in the reverse order of acquisition, logging
\* being acquired first and released last.
C22_EachAcquiredOnceReleasedInReverse ==
  /\ BootmgrStartupCalled =>
        \A r \in ScopedResources :
          /\ WTimes("acquire", r) = 1
          /\ WAt("acquire", r) < WAt("call", "BootmgrStartup")
  /\ \A r \in ScopedResources :
        WTimes("release", r) > 0 =>
          /\ BootmgrStartupReturned
          /\ WAt("return", "BootmgrStartup") < WAt("release", r)
  /\ WinMainReturned =>
        /\ \A r \in ScopedResources : WTimes("release", r) = 1
        /\ ReleasedInReverse
        /\ LoggingFirstAndLast

\* C22, amended: each of the six is set up exactly once, before
\* BootmgrStartup is called; logging and the process locale are always
\* acquired, the four built by New only when New succeeds; what was acquired
\* is released exactly once, after BootmgrStartup has returned, in the
\* reverse order of acquisition, logging first in and last out; what was not
\* acquired is never released.
C22_ScopedSetUpOnceReleasedInReverse ==
  /\ \A r \in ScopedResources :
        /\ WTimes("acquire", r) + WTimes("New failed", r) <= 1
        /\ WTimes("New failed", r) = 1 => r \in ScopedNews \cap env_fail
        /\ WTimes("release", r) <= WTimes("acquire", r)
        /\ WTimes("release", r) > 0 =>
              /\ BootmgrStartupReturned
              /\ WAt("return", "BootmgrStartup") < WAt("release", r)
  /\ BootmgrStartupCalled =>
        \A r \in ScopedResources :
          /\ WTimes("acquire", r) + WTimes("New failed", r) = 1
          /\ WTimes("acquire", r) = 1 <=> r \notin env_fail
          /\ WAt("acquire", r) < WAt("call", "BootmgrStartup")
          /\ WAt("New failed", r) < WAt("call", "BootmgrStartup")
  /\ WinMainReturned =>
        /\ \A r \in ScopedResources :
              WTimes("release", r) = WTimes("acquire", r)
        /\ ReleasedInReverse
        /\ LoggingFirstAndLast

\* WinMain has returned after acquiring and releasing all six.
C22_Witness ==
  /\ WinMainReturned
  /\ \A r \in ScopedResources :
        WTimes("acquire", r) = 1 /\ WTimes("release", r) = 1
  /\ exit_status = Some(7)

-----------------------------------------------------------------------------
\* C23: while a ScopedNewHandler is the innermost live one, the installed
\* handler is the one it was given; each level was built over the handler
\* the level outside it installed; and the step that destroys an object
\* leaves installed the handler that was installed before it was built.
C23_HandlerInstalledForTheScope ==
  /\ [](/\ nh_hist # <<>> => new_handler = nh_hist[Len(nh_hist)].given
        /\ \A i \in 2..Len(nh_hist) : nh_hist[i].before = nh_hist[i - 1].given)
  /\ [][Len(nh_hist') < Len(nh_hist) =>
          new_handler' = nh_hist[Len(nh_hist)].before]_vars

\* An inner scope that installed another handler has ended inside an outer
\* scope, whose handler is installed again.
C23_Witness ==
  /\ Len(nh_scopes) = 1
  /\ nh_last # <<>>
  /\ nh_last[1].given # nh_hist[1].given
  /\ nh_last[1].before = nh_hist[1].given
  /\ new_handler = nh_hist[1].given
  /\ nh_hist[1].before # nh_hist[1].given

-----------------------------------------------------------------------------
\* C24: after a construction that recorded no error the policy is the strong
\* one; after destruction the policy is the value Query handed out at
\* construction; the destructor writes the policy only when no error was
\* recorded and the old value is not the strong one; when the old value was
\* the strong one already, nobody writes the policy.
DestructorWrote ==
  \E i \in 1..Len(cp_writes) : cp_writes[i].by = "destructor"
C24_StrongPolicyForTheScope ==
  /\ (cp_pc = "alive" /\ ~error_code_) =>
        com_policy = COMGLB_UNMARSHALING_POLICY_STRONG
  /\ (cp_pc = "destroyed" /\ cp_queried # <<>>) =>
        com_policy = cp_queried[1] /\ com_policy = cp_initial
  /\ DestructorWrote =>
        ~error_code_ /\ old_value_ # COMGLB_UNMARSHALING_POLICY_STRONG
  /\ cp_queried = <<COMGLB_UNMARSHALING_POLICY_STRONG>> => cp_writes = <<>>

\* The policy was not strong, the constructor made it strong and the
\* destructor has put the old value back.
C24_Witness ==
  /\ cp_pc = "destroyed"
  /\ cp_initial = COMGLB_UNMARSHALING_POLICY_HYBRID
  /\ Len(cp_writes) = 2
  /\ cp_writes[1].value = COMGLB_UNMARSHALING_POLICY_STRONG
  /\ DestructorWrote
  /\ com_policy = COMGLB_UNMARSHALING_POLICY_HYBRID

-----------------------------------------------------------------------------
\* C25: the new name is set only if reading the old name succeeded; the
\* destructor writes the name exactly when the stored error code is clear,
\* and not at all when setting the new name failed; after a constructor and
\* destructor pair without error the thread has the name it had before the
\* construction.
ThreadNameWrittenBy(who) ==
  \E i \in 1..Len(tn_writes) : tn_writes[i].by = who
C25_ThreadNameRestored ==
  /\ ThreadNameWrittenBy("constructor") => "GetThreadName" \notin tn_fail
  /\ tn_pc = "destroyed" =>
        (ThreadNameWrittenBy("destructor") <=> ~tn_error_code_)
  /\ "SetThreadName(constructor)" \in tn_fail =>
        ~ThreadNameWrittenBy("destructor")
  /\ (tn_pc = "destroyed" /\ ~tn_error_code_) => thread_name = tn_before

-----------------------------------------------------------------------------
\* C26: in kernel/main_win.cc, when the Dispatch call that delivered the quit
\* message also returned a result, the quit handler has captured the quit's
\* code but the loop returns the result's value; and whenever the last
\* Dispatch returned a result, 0 included, the loop has stopped because of
\* it and returns its value.
C26_DispatchResultOverridesQuitCode ==
  (variant = KERNEL_WIN /\ maybe_dispatch_rc.has_value) =>
    /\ (kpc = "check_rc" /\ quit_seen /\ ANOTHER_QUIT \notin quit_tail) =>
          /\ Some(exit_code) = quit_code
          /\ is_done
    /\ quit_seen => bursts_before_quit = iterations - 1
    /\ dm_rv # NoInt =>
          /\ dm_rv = Some(maybe_dispatch_rc.value)
          /\ stop_cause = "dispatch_error"
          /\ sim_calls = iterations - 1

\* A quit carrying 42 and a result of value 0 came out of the same Dispatch
\* call; DispatchMessages returned 0.
C26_Witness ==
  /\ variant = KERNEL_WIN /\ kpc = "returned"
  /\ quit_seen /\ quit_code = Some(42)
  /\ maybe_dispatch_rc.has_value /\ maybe_dispatch_rc.value = 0
  /\ dm_rv = Some(0) /\ kernel_rv = Some(0)

-----------------------------------------------------------------------------
\* C27: in kernel/main_win.cc, with a clock that never goes back,
\* loop_iteration_start_time never decreases, and at every point inside or
\* after the loop the delta_time values handed to SimulateWorldStep so far
\* add up to loop_iteration_start_time minus the reading taken before the
\* loop, less the delta_time that is computed but not yet handed over.
DeltaPending == IF kpc = "simulate" THEN delta_time ELSE 0
EntryResolved == Did("Resolve") /\ ~ResolveFailed
EntryReturned == Did("Invoke")
C28_ModuleOpenDuringEntryCall ==
  /\ []((EntryResolved /\ bpc \in {"invoke", "bootmgr_return", "mac_exit"})
          => handle = "open")
  /\ [][/\ Invoke => (handle = "open" /\ handle' = "open")
        /\ (handle = "open" /\ handle' # "open") => EntryReturned]_vars

\* The Mac launcher's entry point has returned and the module is open.
C28_Witness ==
  /\ platform = MAC /\ bpc = "mac_exit"
  /\ EntryResolved /\ EntryReturned /\ rv # NoInt
  /\ handle = "open"

\* --------------------------------------------------------------------
\* C30: the symbol name the launcher resolves in the loaded boot manager
\* is exactly the name under which the boot manager declares its single
\* exported entry point, so that resolving succeeds on a correctly built
\* module: once the launcher has resolved in a module that exports the
\* declared entry point and nothing else, it holds that entry point and
\* the resolve has not failed.
CorrectlyBuiltModule == module_exports = {BootManagerMain}
C30_ResolvedNameIsDeclaredName ==
  (CorrectlyBuiltModule /\ Did("Resolve")) =>
    (EntrySymbol = BootManagerMain /\ entry = BootManagerMain
     /\ ~ResolveFailed)

\* --------------------------------------------------------------------
\* The live objects that hold native window n.
Holders(n) ==
  { o \in SdlObjects : /\ sdl_objects[o].life = "alive"
                       /\ sdl_objects[o].window_ = n }
NoLiveObject == \A o \in SdlObjects : sdl_objects[o].life # "alive"
LastSdlOp == sdl_last[1]
Moves == {"move constructor", "move assignment",
          "MainWindow move assignment"}

\* Every native window that was created is held by exactly one live object
\* and not destroyed, or held by none and destroyed once; a window that was
\* not created is neither held nor destroyed; when no object is alive every
\* created window has been destroyed exactly once.
DestroyedExactlyOnce ==
  /\ \A n \in NativeWindows :
       IF n <= sdl_created
         THEN Cardinality(Holders(n)) + sdl_destroyed[n] = 1
         ELSE Holders(n) = {} /\ sdl_destroyed[n] = 0
  /\ NoLiveObject =>
       \A n \in NativeWindows :
         sdl_destroyed[n] = (IF n <= sdl_created THEN 1 ELSE 0)
FailedNewDestroysNothing ==
  (sdl_last # <<>> /\ LastSdlOp.op \in {"New failed", "New aborted"}) =>
    (LastSdlOp.destroyed = {} /\ sdl_objects[LastSdlOp.this].life = "none")

\* C29 as stated: every created native window is destroyed exactly once,
\* at most one live object holds a given window, a failed New destroys
\* nothing, and the object an operation has just moved from holds no
\* window.
C29_DestroyedOnceMovedFromHoldsNone ==
  /\ DestroyedExactlyOnce
  /\ FailedNewDestroysNothing
  /\ (sdl_last # <<>> /\ LastSdlOp.op \in Moves) =>
       sdl_objects[LastSdlOp.w].window_ = nullptr

\* C29, amended: as above, except that only move construction empties the
\* object moved from; a move assignment exchanges the two objects'
\* windows, so the object moved from then holds what the target held
\* before (none when the target held none).
C29_DestroyedOnceMoveAssignmentSwaps ==
  /\ DestroyedExactlyOnce
  /\ FailedNewDestroysNothing
  /\ (sdl_last # <<>> /\ LastSdlOp.op = "move constructor") =>
       /\ sdl_objects[LastSdlOp.w].window_ = nullptr
       /\ sdl_objects[LastSdlOp.w].life = "alive"
  /\ (sdl_last # <<>> /\ LastSdlOp.op \in Moves \ {"move constructor"}) =>
       sdl_objects[LastSdlOp.w].window_ = LastSdlOp.had

\* A move assignment onto an object that held a window has just run: the
\* object moved from holds the target's former window; before that an
\* object that had been moved from was destroyed and destroyed nothing.
C29_Witness ==
  /\ sdl_last # <<>> /\ LastSdlOp.op = "move assignment"
  /\ LastSdlOp.had # nullptr /\ LastSdlOp.this # LastSdlOp.w
  /\ sdl_objects[LastSdlOp.w].window_ = LastSdlOp.had
  /\ sdl_objects[LastSdlOp.this].window_ \notin {nullptr, LastSdlOp.had}
  /\ \E o \in SdlObjects : sdl_objects[o].life = "destroyed"
  /\ sdl_created = MaxWindows
  /\ \A n \in NativeWindows : sdl_destroyed[n] = 0


=============================================================================
